---- MODULE Spec2Model ----
(***************************************************************************)
(* A state-machine model of alea's Runner (src/alea/runner.py): the        *)
(* constructor with its validation of generate_values, common_hypothesis   *)
(* and the hypothesis list, the toy-data generator, and the                *)
(* simulate / simulate_and_fit loops driven by run().                      *)
(*                                                                         *)
(* Parameter names are sequences of tokens, "_rate_multiplier" being one   *)
(* token, so that str.endswith and str.replace act as they do on strings.  *)
(* Values are triples <<tag, numerator, denominator>>: a number is         *)
(* <<"num", n, d>> in lowest terms, a non-numeric value is <<"str", 0, 1>>.*)
(***************************************************************************)
EXTENDS Integers, Sequences, FiniteSets, TLC

\* ------------------------------------------------------------------ bounds
\* longest hypothesis list the constructor is given
MaxHyp == 2
\* largest number of Monte Carlo repetitions (n_mc)
MaxMC == 2
\* largest number of records in the stored toy-data file
MaxStored == 3

\* ------------------------------------------------------------------ values
Num(n) == <<"num", n, 1>>

Str == <<"str", 0, 1>>

RECURSIVE GCD(_, _)
GCD(a, b) == IF b = 0 THEN a ELSE GCD(b, a % b)

\* a / n as Python's true division of a number by a positive yield
Div(a, n) ==
    LET p == a[2]
        q == a[3] * n
        g == GCD(p, q)
    IN  <<"num", p \div g, q \div g>>

\* isinstance(v, (float, int))
IsNumericOrStr(v) == v[1] \in {"num", "str"}

IsNumeric(v) == v[1] = "num"

AllNumeric(m) == \A k \in DOMAIN m : IsNumeric(m[k])

\* ---------------------------------------------------------------- mappings
EmptyMap == <<>>

\* the dict holding the given <<key, value>> pairs (keys pairwise distinct)
MapOf(pairs) ==
    [k \in {p[1] : p \in pairs} |-> (CHOOSE p \in pairs : p[1] = k)[2]]

\* dict.update: b laid over a, b winning on a common key
UpdateKeepingOld(a, b) ==
    [k \in (DOMAIN a) \cup (DOMAIN b) |-> IF k \in DOMAIN a THEN a[k] ELSE b[k]]

Update(a, b) ==
    [k \in (DOMAIN a) \cup (DOMAIN b) |-> IF k \in DOMAIN b THEN b[k] ELSE a[k]]

\* dict.pop(key) on a dict that holds key
Pop(m, key) == [k \in (DOMAIN m) \ {key} |-> m[k]]

\* ------------------------------------------------------------------- names
RM == "_rate_multiplier"

PoiExpectation == <<"poi_expectation">>

Sigma == <<"sigma">>

Mu == <<"mu">>

Kappa == <<"kappa">>

\* str.endswith(tok)
EndsWith(name, tok) == Len(name) > 0 /\ name[Len(name)] = tok

\* str.replace(tok, ""): every occurrence of tok is removed
Replace(name, tok) == SelectSeq(name, LAMBDA t : t # tok)

\* ------------------------------------------------- the statistical model
\* components (sources) the statistical model knows, with their base yields
Components == {<<"sig">>, <<"bkg">>}

BaseYield(c) == IF c = <<"sig">> THEN 2 ELSE 5

\* model.get_expectation_values(**kwargs): component -> expected yield; the
\* yields scale with the shape parameter sigma (1 when it is not passed)
ExpectationValues(kwargs) ==
    [c \in Components |->
        BaseYield(c) * (IF Sigma \in DOMAIN kwargs THEN kwargs[Sigma][2] ELSE 1)]

\* model.parameters.fittable
Fittable == {Mu, Sigma, <<"sig", RM>>, <<"sig", RM, RM>>}

\* the statistical model's non-fittable parameters
NotFittable == {Kappa}

\* ------------------------------------------------------------ constructor
NoError == "none"

\* _update_poi with the model queried ahead of the two checks
UpdatePoiChecksLast(poi, generate_values, nominal_values) ==
    IF PoiExpectation \notin DOMAIN generate_values
    THEN [err |-> NoError, gv |-> generate_values, queried |-> FALSE]
    ELSE
        LET generate_values_copy == Pop(generate_values, PoiExpectation)
            expectation_values ==
                ExpectationValues(Update(generate_values_copy, nominal_values))
            component == Replace(poi, RM)
        IN  IF poi \in DOMAIN generate_values
            THEN [err |-> "ValueError: poi given along with poi_expectation",
                  gv |-> generate_values, queried |-> TRUE]
            ELSE IF ~EndsWith(poi, RM)
            THEN [err |-> "ValueError: poi should end with _rate_multiplier",
                  gv |-> generate_values, queried |-> TRUE]
            ELSE IF component \notin DOMAIN expectation_values
            THEN [err |-> "KeyError: component", gv |-> generate_values,
                  queried |-> TRUE]
            ELSE [err |-> NoError,
                  gv |-> Update(generate_values_copy,
                                MapOf({<<poi, Div(generate_values[PoiExpectation],
                                                  expectation_values[component])>>})),
                  queried |-> TRUE]

\* Runner._update_poi: the error raised (or NoError), the supplied mapping as
\* the call leaves it (it is changed in place), and whether the model's
\* expectation values were queried
UpdatePoi(poi, generate_values, nominal_values) ==
    IF PoiExpectation \notin DOMAIN generate_values
    THEN [err |-> NoError, gv |-> generate_values, queried |-> FALSE]
    ELSE IF poi \in DOMAIN generate_values
    THEN [err |-> "ValueError: poi given along with poi_expectation",
          gv |-> generate_values, queried |-> FALSE]
    ELSE IF ~EndsWith(poi, RM)
    THEN [err |-> "ValueError: poi should end with _rate_multiplier",
          gv |-> generate_values, queried |-> FALSE]
    ELSE
        LET generate_values_copy == Pop(generate_values, PoiExpectation)
            expectation_values ==
                ExpectationValues(Update(generate_values_copy, nominal_values))
            component == Replace(poi, RM)
        IN  IF component \notin DOMAIN expectation_values
            THEN [err |-> "KeyError: component", gv |-> generate_values,
                  queried |-> TRUE]
            ELSE
                LET ratio == Div(generate_values[PoiExpectation],
                                 expectation_values[component])
                IN  [err |-> NoError,
                     gv |-> Update(Pop(generate_values, PoiExpectation),
                                   MapOf({<<poi, ratio>>})),
                     queried |-> TRUE]

\* the generate_values setter: validation, then _update_poi, then the store
SetGenerateValues(poi, value, nominal_values) ==
    IF ~AllNumeric(value)
    THEN [err |-> "ValueError: generate_values should be a dict of float",
          gv |-> value, queried |-> FALSE]
    ELSE UpdatePoi(poi, value, nominal_values)

\* the common_hypothesis setter
SetCommonHypothesis(value) ==
    IF ~AllNumeric(value)
    THEN "ValueError: common_hypothesis should be a dict of float"
    ELSE NoError

\* a hypothesis of the input list: one of the strings or an explicit mapping
Symbolic(name) == [kind |-> name, map |-> EmptyMap]

Explicit(m) == [kind |-> "dict", map |-> m]

\* "free" in hypotheses
HasFree(hypotheses) == \E i \in 1..Len(hypotheses) : hypotheses[i].kind = "free"

\* hypotheses.index("free"), counted from 1
IndexOfFree(hypotheses) ==
    CHOOSE i \in 1..Len(hypotheses) :
        /\ hypotheses[i].kind = "free"
        /\ \A j \in 1..(i - 1) : hypotheses[j].kind # "free"

\* "free" not in hypotheses and self._compute_confidence_interval
MissingFreeNegated(hypotheses, compute_ci) == ~HasFree(hypotheses) /\ ~compute_ci

MissingFree(hypotheses, compute_ci) == ~HasFree(hypotheses) /\ compute_ci

\* "free" in hypotheses and hypotheses.index("free") != 0
FreeNotFirstOffByOne(hypotheses) ==
    HasFree(hypotheses) /\ IndexOfFree(hypotheses) # 2

FreeNotFirst(hypotheses) == HasFree(hypotheses) /\ IndexOfFree(hypotheses) # 1

\* the body of the loop of _get_hypotheses for one hypothesis: the mapping the
\* string stands for, laid over a copy of common_hypothesis
ResolveHypothesis(poi, generate_values, common_hypothesis, hypothesis) ==
    IF hypothesis.kind = "true" /\ poi \notin DOMAIN generate_values
    THEN [err |-> "ValueError: poi should be provided in generate_values",
          array |-> EmptyMap]
    ELSE
        LET h == CASE hypothesis.kind = "null" -> MapOf({<<poi, Num(0)>>})
                   [] hypothesis.kind = "true" ->
                          MapOf({<<poi, generate_values[poi]>>})
                   [] hypothesis.kind = "free" -> EmptyMap
                   [] OTHER -> hypothesis.map
            array == Update(common_hypothesis, h)
        IN  IF ~AllNumeric(array)
            THEN [err |-> "ValueError: hypothesis should be a dict of float",
                  array |-> array]
            ELSE [err |-> NoError, array |-> array]

\* Runner._get_hypotheses
GetHypotheses(poi, hypotheses, generate_values, common_hypothesis, compute_ci) ==
    IF Len(hypotheses) = 0
    THEN [err |-> "ValueError: hypotheses should not be empty", values |-> <<>>]
    ELSE IF MissingFree(hypotheses, compute_ci)
    THEN [err |-> "ValueError: free hypothesis is needed for confidence interval",
          values |-> <<>>]
    ELSE IF FreeNotFirst(hypotheses)
    THEN [err |-> "ValueError: free hypothesis should be the first hypothesis",
          values |-> <<>>]
    ELSE
        LET res == [i \in 1..Len(hypotheses) |->
                       ResolveHypothesis(poi, generate_values, common_hypothesis,
                                         hypotheses[i])]
            bad == {i \in 1..Len(hypotheses) : res[i].err # NoError}
        IN  IF bad # {}
            THEN [err |-> res[CHOOSE i \in bad : \A j \in bad : i <= j].err,
                  values |-> <<>>]
            ELSE [err |-> NoError,
                  values |-> [i \in 1..Len(hypotheses) |-> res[i].array]]

\* __init__ with the hypotheses resolved against the generate_values as passed
RunnerInitStale(a) ==
    LET ce == SetCommonHypothesis(a.common_hypothesis)
        g  == SetGenerateValues(a.poi, a.generate_values, a.nominal_values)
        h  == GetHypotheses(a.poi, a.hypotheses, a.generate_values,
                            a.common_hypothesis, a.compute_confidence_interval)
    IN  IF ce # NoError
        THEN [err |-> ce, gv |-> a.generate_values, queried |-> FALSE,
              values |-> <<>>]
        ELSE IF g.err # NoError
        THEN [err |-> g.err, gv |-> g.gv, queried |-> g.queried, values |-> <<>>]
        ELSE [err |-> h.err, gv |-> g.gv, queried |-> g.queried,
              values |-> h.values]

\* Runner.__init__ on the arguments a: the two setters in the order of the
\* assignments, then _get_hypotheses on the stored attributes
RunnerInit(a) ==
    LET ce == SetCommonHypothesis(a.common_hypothesis)
        g  == SetGenerateValues(a.poi, a.generate_values, a.nominal_values)
        h  == GetHypotheses(a.poi, a.hypotheses, g.gv, a.common_hypothesis,
                            a.compute_confidence_interval)
    IN  IF ce # NoError
        THEN [err |-> ce, gv |-> a.generate_values, queried |-> FALSE,
              values |-> <<>>]
        ELSE IF g.err # NoError
        THEN [err |-> g.err, gv |-> g.gv, queried |-> g.queried, values |-> <<>>]
        ELSE [err |-> h.err, gv |-> g.gv, queried |-> g.queried,
              values |-> h.values]

\* ---------------------------------------------------------------- datasets
\* the k-th dataset generate_data returns; truthy is its truth value in Python
Generated(k, t) == [src |-> "gen", idx |-> k, truthy |-> t]

\* the k-th record of the stored toy-data file
Stored(k) == [src |-> "file", idx |-> k, truthy |-> TRUE]

\* None
NoData == [src |-> "none", idx |-> 0, truthy |-> FALSE]

\* the dataset the model holds before the Runner touches it
Preset == [src |-> "preset", idx |-> 0, truthy |-> TRUE]

ToydataModes == {"read", "generate", "generate_and_write", "no_toydata"}

\* ------------------------------------------------------- bounded arguments
PoiNames == {Mu, <<"sig", RM>>, <<"sig", RM, RM>>}

SeqsUpTo(S, n) == UNION {[1..k -> S] : k \in 0..n}

HypothesisChoices ==
    {Symbolic("free"), Symbolic("null"), Symbolic("true"),
     Explicit(MapOf({<<Sigma, Num(5)>>})), Explicit(MapOf({<<Sigma, Str>>}))}

CommonChoices(poi) ==
    {EmptyMap, MapOf({<<poi, Num(1)>>, <<Sigma, Num(1)>>}), MapOf({<<Sigma, Str>>})}

GenerateValuesChoices(poi) ==
    {MapOf(a \cup b \cup c) :
        a \in {{}, {<<poi, Num(2)>>}},
        b \in {{}, {<<PoiExpectation, Num(4)>>}},
        c \in {{}, {<<Sigma, Num(3)>>}, {<<Sigma, Str>>}}}

NominalChoices == {EmptyMap, MapOf({<<Sigma, Num(1)>>})}

\* an entry of the metadata of an output file: a name or a mapping
MetaName(name) == [name |-> name, map |-> EmptyMap]

MetaMap(m) == [name |-> <<>>, map |-> m]

\* metadata=None
NoMetadata == [k \in {} |-> MetaName(<<>>)]

\* the metadata a user passes to the Runner
MetadataChoices ==
    {NoMetadata,
     [k \in {"note"} |-> MetaName(<<"n">>)],
     [k \in {"note", "date", "poi", "common_hypothesis", "generate_values"} |->
         CASE k = "note" -> MetaName(<<"n">>)
           [] k = "date" -> MetaName(<<"yesterday">>)
           [] k = "poi" -> MetaName(Sigma)
           [] OTHER -> MetaMap(MapOf({<<Sigma, Num(5)>>}))]}

\* constructor arguments that exercise the validation
ValidationArgs ==
    UNION {
        [poi : {p},
         hypotheses : SeqsUpTo(HypothesisChoices, MaxHyp),
         common_hypothesis : CommonChoices(p),
         generate_values : GenerateValuesChoices(p),
         nominal_values : NominalChoices,
         compute_confidence_interval : BOOLEAN,
         n_mc : {1},
         toydata_mode : {"generate_and_write"},
         only_toydata : {FALSE},
         stored : {0},
         metadata : {NoMetadata}] : p \in PoiNames}

\* constructor arguments that exercise the toy-data modes and the loops
LoopArgs ==
    {a \in
        [poi : {Mu},
         hypotheses : SeqsUpTo({Symbolic("free"), Symbolic("null"), Symbolic("true"),
                                Explicit(MapOf({<<Kappa, Num(1)>>}))}, MaxHyp),
         common_hypothesis : {EmptyMap, MapOf({<<Mu, Num(1)>>})},
         generate_values : {MapOf({<<Mu, Num(2)>>})},
         nominal_values : {EmptyMap},
         compute_confidence_interval : BOOLEAN,
         n_mc : 0..MaxMC,
         toydata_mode : ToydataModes \cup {"bogus"},
         only_toydata : BOOLEAN,
         stored : 0..MaxStored,
         metadata : {NoMetadata}] :
        a.stored = 0 \/ a.toydata_mode = "read"}

\* constructor arguments that exercise write_output: the hypotheses are all
\* fittable, the user's metadata vary
OutputArgs ==
    [poi : {Mu},
     hypotheses : SeqsUpTo({Symbolic("free"), Symbolic("null"), Symbolic("true"),
                            Explicit(MapOf({<<Sigma, Num(5)>>}))}, MaxHyp),
     common_hypothesis : {EmptyMap, MapOf({<<Sigma, Num(1)>>})},
     generate_values : {MapOf({<<Mu, Num(2)>>})},
     nominal_values : {EmptyMap},
     compute_confidence_interval : {FALSE},
     n_mc : {1},
     toydata_mode : {"no_toydata"},
     only_toydata : {FALSE},
     stored : {0},
     metadata : MetadataChoices]

\* ------------------------------------------------------------------- state
VARIABLES
    pc,                       \* where the caller of the Runner is
    args,                     \* the constructor's arguments as they were passed
    caller_generate_values,   \* the caller's generate_values mapping, as it is now
    heap,                     \* the mappings and metadata dicts, by object
    refs,                     \* the objects the Runner's attributes refer to
    error,                    \* the exception that ended construction or the run
    generate_values,          \* self._generate_values
    common_hypothesis,        \* self._common_hypothesis
    hypotheses_values,        \* self._hypotheses_values
    expectation_queries,      \* calls of model.get_expectation_values
    toyfile,                  \* the records stored in the toy-data file
    toydata,                  \* the generator's list toydata
    i_mc,                     \* the generator's loop index
    data,                     \* the dataset last yielded
    model_data,               \* model.data
    generated,                \* calls of model.generate_data
    file_reads,               \* calls of read_toydata
    h_idx,                    \* position in the loop over the hypotheses
    fit_results,              \* the list fit_results of the running iteration
    fits,                     \* calls of model.fit, in order
    results,                  \* the result tables of simulate_and_fit
    toydata_writes,           \* calls of write_toydata, each with its datasets
    output_writes,            \* calls of write_output
    warnings,                 \* warnings emitted by the data generator
    yielded,                  \* the datasets the generator has yielded, in order
    generate_calls,           \* the keyword arguments of each generate_data call
    assignments,              \* the assignments to model.data, in order
    ci_calls,                 \* calls of model.confidence_interval, in order
    gen_done                  \* the generator has run to its end

\* the state of a Submitter and of its computation_tickets_generator
VARIABLES
    sub_pc,                   \* where the consumer of the tickets generator is
    sub_error,                \* the exception that ended the generator
    submitter,                \* the Submitter's attributes and class attributes
    default_args,             \* default_args of merged_arguments_generator
    annotations,              \* annotations of computation_tickets_generator
    merged_args_list,         \* the expanded grid
    i_grid,                   \* the index of the grid point, from 1
    runner_args,              \* the argument set being built or last yielded
    n_mc_requested,           \* n_mc of the argument set before update_n_batch
    i_batch,                  \* the batch index of the next ticket
    yielded_args,             \* the argument sets yielded so far
    args_given,               \* the argument set handed to update_runner_args
    conv,                     \* a call of arg_to_str or str_to_arg and its result
    tickets                   \* the (script, output filename) pairs yielded so far

vars == <<pc, args, caller_generate_values, heap, refs, error, generate_values,
          common_hypothesis, hypotheses_values, expectation_queries, toyfile,
          toydata, i_mc, data, model_data, generated, file_reads, h_idx,
          fit_results, fits, results, toydata_writes, output_writes, warnings,
          yielded, generate_calls, assignments, ci_calls, gen_done,
          sub_pc, sub_error, submitter, default_args, annotations,
          merged_args_list, i_grid, runner_args, n_mc_requested, i_batch,
          yielded_args, args_given, conv, tickets>>

\* the variables of the Submitter
subvars == <<sub_pc, sub_error, submitter, default_args, annotations,
             merged_args_list, i_grid, runner_args, n_mc_requested, i_batch,
             yielded_args, args_given, conv, tickets>>

\* the variables of the Runner
runnervars == <<pc, args, caller_generate_values, heap, refs, error, generate_values,
               common_hypothesis, hypotheses_values, expectation_queries,
               toyfile, toydata, i_mc, data, model_data, generated, file_reads,
               h_idx, fit_results, fits, results, toydata_writes,
               output_writes, warnings, yielded, generate_calls, assignments,
               ci_calls, gen_done>>

runvars == <<toydata, i_mc, data, model_data, generated, file_reads, h_idx,
             fit_results, fits, results, toydata_writes, output_writes, warnings,
             yielded, generate_calls, assignments, ci_calls, gen_done>>

\* the logs of the collaborators' calls that a step may leave alone
logvars == <<yielded, generate_calls, assignments, ci_calls, gen_done>>

\* -------------------------------------------------- values of arguments
\* a value of a Runner argument: its type, and the integer or ratio n/d, the
\* text or list of words s, or the mapping m it holds
VNone == [t |-> "none", n |-> 0, d |-> 1, s |-> <<>>, m |-> <<>>]

VInt(i) == [t |-> "int", n |-> i, d |-> 1, s |-> <<>>, m |-> <<>>]

VFloat(n, d) == [t |-> "float", n |-> n, d |-> d, s |-> <<>>, m |-> <<>>]

VBool(b) ==
    [t |-> "bool", n |-> IF b THEN 1 ELSE 0, d |-> 1, s |-> <<>>, m |-> <<>>]

VStr(s) == [t |-> "str", n |-> 0, d |-> 1, s |-> s, m |-> <<>>]

VList(s) == [t |-> "list", n |-> 0, d |-> 1, s |-> s, m |-> <<>>]

VDict(m) == [t |-> "dict", n |-> 0, d |-> 1, s |-> <<>>, m |-> m]

\* isinstance(v, (float, int)), which a bool passes
IsNumber(v) == v.t \in {"int", "float", "bool"}

\* ------------------------------------------- the signature of the Runner
\* a parameter of Runner.__init__: name, default and annotation (the types a
\* value of the annotation may have; none for a parameter without one)
Param(name, default, annotation) ==
    [name |-> <<name>>, has_default |-> TRUE, default |-> default,
     annotation |-> annotation]

Self ==
    [name |-> <<"self">>, has_default |-> FALSE, default |-> VNone,
     annotation |-> {}]

\* Optional[dict], Optional[Dict[str, float]], Optional[str],
\* Optional[Union[dict, list]]
OptionalDict == {"dict", "none"}
OptionalStr == {"str", "none"}
OptionalDictOrList == {"dict", "list", "none"}

\* def __init__(self, statistical_model: str = ..., ..., metadata = None)
Signature ==
    <<Self,
      Param("statistical_model", VStr(<<"alea.examples.gaussian_model.GaussianModel">>), {"str"}),
      Param("poi", VStr(<<"mu">>), {"str"}),
      Param("hypotheses", VList(<<"free">>), {"list"}),
      Param("n_mc", VInt(3), {"int"}),
      Param("common_hypothesis", VNone, OptionalDict),
      Param("generate_values", VNone, OptionalDict),
      Param("nominal_values", VNone, OptionalDict),
      Param("statistical_model_config", VNone, OptionalStr),
      Param("parameter_definition", VNone, OptionalDictOrList),
      Param("statistical_model_args", VNone, OptionalDict),
      Param("likelihood_config", VNone, OptionalDict),
      Param("compute_confidence_interval", VBool(FALSE), {"bool"}),
      Param("confidence_level", VFloat(9, 10), {"float"}),
      Param("confidence_interval_kind", VStr(<<"central">>), {"str"}),
      Param("toydata_mode", VStr(<<"generate_and_write">>), {"str"}),
      Param("toydata_file", VStr(<<"test_toydata_file", ".h5">>), {"str"}),
      Param("only_toydata", VBool(FALSE), {"bool"}),
      Param("output_file", VStr(<<"test_output_file", ".h5">>), {"str"}),
      Param("metadata", VNone, OptionalDict)>>

\* the names of the Runner's constructor parameters, self left out:
\* list(inspect.signature(Runner.__init__).parameters.keys())[1:]
RunnerParameters == {Signature[k].name : k \in 2..Len(Signature)}

\* inspect.getfullargspec: args, the defaults of the last parameters (those
\* that have one), and the annotations
ArgSpecArgs == [k \in 1..Len(Signature) |-> Signature[k].name]

ArgSpecDefaults ==
    LET with == {k \in 1..Len(Signature) : Signature[k].has_default}
        skip == Len(Signature) - Cardinality(with)
    IN  [k \in 1..Cardinality(with) |-> Signature[skip + k].default]

ArgSpecAnnotations ==
    LET with == {k \in 1..Len(Signature) : Signature[k].annotation # {}}
    IN  [name \in {Signature[k].name : k \in with} |->
            Signature[CHOOSE k \in with : Signature[k].name = name].annotation]

\* dict(zip(names, values)): the pairs up to the shorter length
DictZip(names, values) ==
    LET n == IF Len(names) < Len(values) THEN Len(names) ELSE Len(values)
    IN  [name \in {names[k] : k \in 1..n} |->
            values[CHOOSE k \in 1..n :
                       /\ names[k] = name
                       /\ \A l \in 1..n : names[l] = name => l <= k]]

\* Runner.runner_arguments()
RunnerArgumentsWithSelf ==
    [args |-> ArgSpecArgs,
     default_args |-> DictZip(ArgSpecArgs, ArgSpecDefaults),
     annotations |-> ArgSpecAnnotations]

RunnerArguments ==
    [args |-> ArgSpecArgs,
     default_args |-> DictZip(Tail(ArgSpecArgs), ArgSpecDefaults),
     annotations |-> ArgSpecAnnotations]

\* ------------------------------------------------------- the Submitter
\* names of arguments the Submitter knows besides the Runner's parameters
NBatch == <<"n_batch">>
NMc == <<"n_mc">>
OutputFilename == <<"output_filename">>
ToydataFilename == <<"toydata_filename">>
LimitThreshold == <<"limit_threshold">>
GenerateValues == <<"generate_values">>
NominalValues == <<"nominal_values">>
StatisticalModelArgs == <<"statistical_model_args">>
TemplatePath == <<"template_path">>

\* the Submitter's own statistical_model, statistical_model_config and poi
StatisticalModel == <<"statistical_model">>
StatisticalModelConfig == <<"statistical_model_config">>
Poi == <<"poi">>

CommonRunnerArgs ==
    MapOf({<<StatisticalModel, VStr(<<"submitter_model">>)>>,
           <<StatisticalModelConfig, VStr(<<"submitter_config", ".yaml">>)>>,
           <<Poi, VStr(<<"sig", RM>>)>>})

\* self.outputfolder, an absolute path
OutputFolder == <<"/outputfolder">>

\* self.model.fittable + ["poi_expectation"], self.model.not_fittable
ParametersFittable == Fittable \cup {PoiExpectation}

ParametersNotFittable == NotFittable

\* no call of arg_to_str or str_to_arg yet
NoConversion ==
    [stage |-> "none", value |-> VNone, annotation |-> {}, text |-> VNone,
     back |-> VNone, err |-> NoError]

\* no Submitter yet
NoSubmitter ==
    [computation |-> [keys |-> {}, variations |-> <<>>],
     allowed_special_args |-> {}, template_path |-> VNone]

\* the result of a step on an argument set: the error raised, if any, and
\* the argument set as the step leaves it
Outcome(err, ra) == [err |-> err, args |-> ra]

\* update_n_batch(runner_args)
UpdateNBatchRoundingUp(ra) ==
    IF NMc \notin DOMAIN ra \/ NBatch \notin DOMAIN ra
    THEN Outcome(NoError, ra)
    ELSE IF ra[NBatch].n = 0
    THEN Outcome("ZeroDivisionError: integer modulo by zero", ra)
    ELSE Outcome(NoError,
                 [ra EXCEPT ![NMc] =
                      VInt((ra[NMc].n + ra[NBatch].n - 1) \div ra[NBatch].n)])

UpdateNBatch(ra) ==
    IF NMc \notin DOMAIN ra \/ NBatch \notin DOMAIN ra
    THEN Outcome(NoError, ra)
    ELSE IF ra[NBatch].n = 0
    THEN Outcome("ZeroDivisionError: integer modulo by zero", ra)
    ELSE IF ra[NMc].n % ra[NBatch].n # 0
    THEN Outcome("ValueError: n_mc must be divisible by n_batch", ra)
    ELSE Outcome(NoError,
                 [ra EXCEPT ![NMc] = VInt(ra[NMc].n \div ra[NBatch].n)])

\* add_i_batch(filename): the batch index goes before the extension, the
\* last piece of the text
AddIBatch(text) ==
    SubSeq(text, 1, Len(text) - 1) \o <<"_{i_batch:d}", text[Len(text)]>>

\* os.path.join(outputfolder, filename), filename relative
PathJoin(folder, text) == folder \o <<"/">> \o text

\* update_output_toydata(runner_args, outputfolder)
UpdateOutputToydata(ra, outputfolder) ==
    [k \in DOMAIN ra |->
        IF k \in {OutputFilename, ToydataFilename} /\ ra[k].t # "none"
        THEN IF NBatch \in DOMAIN ra
             THEN VStr(PathJoin(outputfolder, AddIBatch(ra[k].s)))
             ELSE VStr(PathJoin(outputfolder, ra[k].s))
        ELSE ra[k]]

\* the mapping an argument holds, {} standing in for None
DictOrEmpty(v) == IF v.t = "none" THEN <<>> ELSE v.m

\* update_runner_args(runner_args, parameters_fittable, parameters_not_fittable)
UpdateRunnerArgsKeepsKeys(ra, fittable, not_fittable) ==
    Outcome(NoError, ra)

UpdateRunnerArgs(ra, fittable, not_fittable) ==
    LET to_generate == (DOMAIN ra) \cap fittable
        to_nominal == ((DOMAIN ra) \cap not_fittable) \ fittable
        generate == Update(DictOrEmpty(ra[GenerateValues]),
                           [k \in to_generate |-> ra[k]])
        nominal == Update(DictOrEmpty(ra[NominalValues]),
                          [k \in to_nominal |-> ra[k]])
        left == [k \in (DOMAIN ra) \ (to_generate \cup to_nominal) |->
                    CASE k = GenerateValues -> VDict(generate)
                      [] k = NominalValues -> VDict(nominal)
                      [] OTHER -> ra[k]]
    IN  IF (DOMAIN generate) \ fittable # {}
        THEN Outcome("ValueError: generate_values should be a subset of the fittable parameters", left)
        ELSE IF \E k \in DOMAIN generate : ~IsNumber(generate[k])
        THEN Outcome("ValueError: generate_values should be all float or int", left)
        ELSE IF \E k \in DOMAIN nominal : ~IsNumber(nominal[k])
        THEN Outcome("ValueError: nominal_values should be all float or int", left)
        ELSE Outcome(NoError, left)

\* update_limit_threshold(runner_args, outputfolder)
UpdateLimitThreshold(ra, outputfolder) ==
    IF LimitThreshold \in DOMAIN ra
    THEN [ra EXCEPT ![LimitThreshold] = VStr(PathJoin(outputfolder, @.s))]
    ELSE ra

\* update_statistical_model_args(runner_args, template_path)
UpdateStatisticalModelArgs(ra, template_path) ==
    LET given == DictOrEmpty(ra[StatisticalModelArgs])
        with_template == IF template_path.t # "none"
                         THEN Update(given, [k \in {TemplatePath} |-> template_path])
                         ELSE given
        with_limit == IF LimitThreshold \in DOMAIN ra
                      THEN Update(with_template,
                                  [k \in {LimitThreshold} |-> ra[LimitThreshold]])
                      ELSE with_template
    IN  [k \in (DOMAIN ra) \ {LimitThreshold} |->
            IF k = StatisticalModelArgs THEN VDict(with_limit) ELSE ra[k]]

\* check_redunant_arguments(runner_args, allowed_special_args)
CheckRedundantArgumentsLax(ra, allowed_special_args) == NoError

CheckRedundantArguments(ra, allowed_special_args) ==
    IF (DOMAIN ra) \subseteq
           (RunnerParameters \cup {NBatch} \cup allowed_special_args)
    THEN NoError
    ELSE "ValueError: Not all arguments are supported"

\* ------------------------------------------------- objects and references
\* the objects of the caller: the common_hypothesis mapping, the mappings in
\* the hypotheses list, the metadata dict
CallerCommon == <<"caller common_hypothesis", 0>>

CallerHypothesis(k) == <<"caller hypotheses", k>>

CallerMetadata == "caller metadata"

\* the objects the Runner makes: the {} that stand in for a falsy
\* common_hypothesis or metadata, the array of the k-th hypothesis, the
\* metadata dict of write_output
RunnerCommon == <<"runner common_hypothesis", 0>>

Array(k) == <<"array", k>>

RunnerMetadata == "runner metadata"

FileMetadata == "file metadata"

NoObjects == [hyp |-> <<>>, meta |-> <<>>]

NoRefs ==
    [common_hypothesis |-> <<"none", 0>>, hypotheses_values |-> <<>>,
     metadata |-> "none"]

\* deepcopy(x), x the object id of the objects h: the objects with the copy
\* among them, and the copy
DeepCopyShares(h, id, fresh) == [objects |-> h, ref |-> id]

DeepCopy(h, id, fresh) ==
    [objects |-> Update(h, [x \in {fresh} |-> h[id]]), ref |-> fresh]

\* the objects when __init__ is entered
CallerObjects(a) ==
    [hyp |-> Update([x \in {CallerCommon} |-> a.common_hypothesis],
                    [x \in {CallerHypothesis(k) :
                               k \in {j \in 1..Len(a.hypotheses) :
                                         a.hypotheses[j].kind = "dict"}} |->
                        a.hypotheses[x[2]].map]),
     meta |-> [x \in {CallerMetadata} |-> a.metadata]]

\* self.common_hypothesis = common_hypothesis if common_hypothesis else {}
CommonRef(a) ==
    IF a.common_hypothesis # EmptyMap THEN CallerCommon ELSE RunnerCommon

\* self._metadata = metadata if metadata else {}
MetadataRef(a) ==
    IF a.metadata # NoMetadata THEN CallerMetadata ELSE RunnerMetadata

\* the mapping a hypothesis of the list stands for (the list is resolvable)
HypothesisMap(poi, gv, hypothesis) ==
    CASE hypothesis.kind = "null" -> MapOf({<<poi, Num(0)>>})
      [] hypothesis.kind = "true" -> MapOf({<<poi, gv[poi]>>})
      [] hypothesis.kind = "free" -> EmptyMap
      [] OTHER -> hypothesis.map

\* the loop of _get_hypotheses from the k-th hypothesis on:
\* array = deepcopy(self.common_hypothesis); array.update(hypothesis);
\* hypotheses_values.append(array)
RECURSIVE ResolveObjects(_, _, _, _, _, _)
ResolveObjects(h, ids, k, a, gv, common) ==
    IF k > Len(a.hypotheses)
    THEN [objects |-> h, ids |-> ids]
    ELSE LET array == DeepCopy(h, common, Array(k))
             updated == [array.objects EXCEPT ![array.ref] =
                            Update(@, HypothesisMap(a.poi, gv, a.hypotheses[k]))]
         IN  ResolveObjects(updated, Append(ids, array.ref), k + 1, a, gv,
                            common)

\* the objects and the references when __init__ returns or raises
RunnerObjects(a, r) ==
    IF r.err # NoError
    THEN [heap |-> CallerObjects(a), refs |-> NoRefs]
    ELSE LET start == IF a.common_hypothesis # EmptyMap
                      THEN CallerObjects(a).hyp
                      ELSE Update(CallerObjects(a).hyp,
                                  [x \in {RunnerCommon} |-> EmptyMap])
             metas == IF a.metadata # NoMetadata
                      THEN CallerObjects(a).meta
                      ELSE Update(CallerObjects(a).meta,
                                  [x \in {RunnerMetadata} |-> NoMetadata])
             res == ResolveObjects(start, <<>>, 1, a, r.gv, CommonRef(a))
         IN  [heap |-> [hyp |-> res.objects, meta |-> metas],
              refs |-> [common_hypothesis |-> CommonRef(a),
                        hypotheses_values |-> res.ids,
                        metadata |-> MetadataRef(a)]]

NoArgs ==
    [poi |-> <<>>, hypotheses |-> <<>>, common_hypothesis |-> EmptyMap,
     generate_values |-> EmptyMap, nominal_values |-> EmptyMap,
     compute_confidence_interval |-> FALSE, n_mc |-> 0,
     toydata_mode |-> "no_toydata", only_toydata |-> FALSE, stored |-> 0,
     metadata |-> NoMetadata]

Init ==
    /\ pc = "new"
    /\ args = NoArgs
    /\ caller_generate_values = EmptyMap
    /\ heap = NoObjects
    /\ refs = NoRefs
    /\ error = NoError
    /\ generate_values = EmptyMap
    /\ common_hypothesis = EmptyMap
    /\ hypotheses_values = <<>>
    /\ expectation_queries = 0
    /\ toyfile = <<>>
    /\ toydata = <<>>
    /\ i_mc = 0
    /\ data = NoData
    /\ model_data = Preset
    /\ generated = 0
    /\ file_reads = 0
    /\ h_idx = 0
    /\ fit_results = <<>>
    /\ fits = <<>>
    /\ results = <<>>
    /\ toydata_writes = <<>>
    /\ output_writes = <<>>
    /\ warnings = 0
    /\ yielded = <<>>
    /\ generate_calls = <<>>
    /\ assignments = <<>>
    /\ ci_calls = <<>>
    /\ gen_done = FALSE
    /\ sub_pc = "idle"
    /\ sub_error = NoError
    /\ submitter = NoSubmitter
    /\ default_args = <<>>
    /\ annotations = <<>>
    /\ merged_args_list = <<>>
    /\ i_grid = 0
    /\ runner_args = <<>>
    /\ n_mc_requested = 0
    /\ i_batch = 0
    /\ yielded_args = <<>>
    /\ args_given = <<>>
    /\ conv = NoConversion
    /\ tickets = <<>>

\* Runner(**a): the whole of __init__
Construct(a) ==
    /\ pc = "new"
    /\ \E r \in {RunnerInit(a)} :
           /\ args' = a
           /\ toyfile' = [k \in 1..a.stored |-> Stored(k - 1)]
           /\ caller_generate_values' = r.gv
           /\ heap' = RunnerObjects(a, r).heap
           /\ refs' = RunnerObjects(a, r).refs
           /\ expectation_queries' = IF r.queried THEN 1 ELSE 0
           /\ error' = r.err
           /\ IF r.err = NoError
              THEN /\ pc' = "constructed"
                   /\ generate_values' = r.gv
                   /\ common_hypothesis' = a.common_hypothesis
                   /\ hypotheses_values' = r.values
              ELSE /\ pc' = "init_failed"
                   /\ UNCHANGED <<generate_values, common_hypothesis,
                                  hypotheses_values>>
    /\ UNCHANGED runvars
    /\ UNCHANGED subvars

ConstructValidation == pc = "new" /\ \E a \in ValidationArgs : Construct(a)

ConstructLoop == pc = "new" /\ \E a \in LoopArgs : Construct(a)

ConstructOutput == pc = "new" /\ \E a \in OutputArgs : Construct(a)

\* ------------------------------------------------------------------ run()
\* np.zeros(...)[i]: a row of a result table nothing was written to
ZeroRow == [i |-> -1, h |-> 0, data |-> NoData, hyp |-> EmptyMap, ci |-> FALSE]

\* the order of Python's sorted() on the names of the model's parameters
NameRank(name) ==
    CASE name = Kappa -> 1
      [] name = Mu -> 2
      [] name = <<"sig", RM>> -> 3
      [] name = <<"sig", RM, RM>> -> 4
      [] name = Sigma -> 5

RECURSIVE Sorted(_)
Sorted(names) ==
    IF names = {}
    THEN <<>>
    ELSE LET least == CHOOSE n \in names :
                          \A m \in names : NameRank(n) <= NameRank(m)
         IN  <<least>> \o Sorted(names \ {least})

\* model.get_parameter_list(): the names the result schema is computed from,
\* the model's fittable parameters
ParameterList == Fittable

\* _get_parameter_list(): the columns of a result table
LL == <<"ll">>
DL == <<"dl">>
UL == <<"ul">>

GetParameterListUnsorted ==
    <<Sigma, Mu, <<"sig", RM, RM>>, <<"sig", RM>>, LL, DL, UL>>

GetParameterList == Sorted(ParameterList) \o <<LL, DL, UL>>

\* an exception leaves run(): nothing catches it, and the run is over
RaiseAndGoOn(e) == pc' = "write_output" /\ error' = e

RaiseAndRetry(e) == pc' = pc /\ error' = e

Raise(e) == pc' = "run_failed" /\ error' = e

\* run() enters simulate() or simulate_and_fit(); the latter allocates one
\* zeroed table of n_mc rows per resolved hypothesis; the generator object is
\* created and has not run yet
Run ==
    /\ pc = "constructed"
    /\ pc' = "gen_start"
    /\ results' = IF args.only_toydata
                  THEN <<>>
                  ELSE [h \in 1..Len(hypotheses_values) |->
                           [names |-> GetParameterList,
                            rows |-> [i \in 1..args.n_mc |-> ZeroRow]]]
    /\ UNCHANGED <<args, caller_generate_values, heap, refs, error, generate_values,
                   common_hypothesis, hypotheses_values, expectation_queries,
                   toyfile, toydata, i_mc, data, model_data, generated,
                   file_reads, h_idx, fit_results, fits, toydata_writes,
                   output_writes, warnings>>
    /\ UNCHANGED logvars
    /\ UNCHANGED subvars

\* the two checks that open data_generator
DataGeneratorCheckModeOnly(toydata_mode, only_toydata) ==
    IF toydata_mode \notin ToydataModes
    THEN "ValueError: Unknown toydata mode"
    ELSE NoError

DataGeneratorCheckOnlyToydata(toydata_mode, only_toydata) ==
    IF only_toydata /\ toydata_mode # "generate_and_write"
    THEN "ValueError: only_toydata is True, you should only generate_and_write"
    ELSE NoError

DataGeneratorCheck(toydata_mode, only_toydata) ==
    IF toydata_mode \notin ToydataModes
    THEN "ValueError: Unknown toydata mode"
    ELSE IF only_toydata /\ toydata_mode # "generate_and_write"
    THEN "ValueError: only_toydata is True, you should only generate_and_write"
    ELSE NoError

\* the check of the stored toy data against n_mc in read mode
ReadCheckStrict(n_stored, n_mc) ==
    IF n_stored <= n_mc
    THEN "ValueError: Number of stored toydata is less than number of Monte Carlo"
    ELSE NoError

ReadCheck(n_stored, n_mc) ==
    IF n_stored < n_mc
    THEN "ValueError: Number of stored toydata is less than number of Monte Carlo"
    ELSE NoError

\* the first next() on the generator, up to the head of its loop
GenStart ==
    /\ pc = "gen_start"
    /\ i_mc' = 0
    /\ LET e == DataGeneratorCheck(args.toydata_mode, args.only_toydata)
           r == ReadCheck(Len(toyfile), args.n_mc)
       IN  IF e # NoError
           THEN /\ pc' = "run_failed"
                /\ error' = e
                /\ UNCHANGED <<toydata, file_reads, warnings>>
           ELSE IF args.toydata_mode = "read"
           THEN /\ file_reads' = file_reads + 1
                /\ toydata' = toyfile
                /\ pc' = IF r # NoError THEN "run_failed" ELSE "gen_loop"
                /\ error' = r
                /\ warnings' = IF Len(toyfile) > args.n_mc
                               THEN warnings + 1 ELSE warnings
           ELSE /\ toydata' = <<>>
                /\ pc' = "gen_loop"
                /\ UNCHANGED <<error, file_reads, warnings>>
    /\ UNCHANGED <<args, caller_generate_values, heap, refs, generate_values,
                   common_hypothesis, hypotheses_values, expectation_queries,
                   toyfile, data, model_data, generated, h_idx, fit_results,
                   fits, results, toydata_writes, output_writes>>
    /\ UNCHANGED logvars
    /\ UNCHANGED subvars

\* read_toydata() raises: the toy file is missing or unreadable
ReadToydataRaises ==
    /\ pc = "gen_start"
    /\ DataGeneratorCheck(args.toydata_mode, args.only_toydata) = NoError
    /\ args.toydata_mode = "read"
    /\ i_mc' = 0
    /\ file_reads' = file_reads + 1
    /\ Raise("read_toydata raised")
    /\ UNCHANGED <<args, caller_generate_values, heap, refs, generate_values,
                   common_hypothesis, hypotheses_values, expectation_queries,
                   toyfile, toydata, data, model_data, generated, h_idx,
                   fit_results, fits, results, toydata_writes, output_writes,
                   warnings>>
    /\ UNCHANGED logvars
    /\ UNCHANGED subvars

\* the keyword arguments of model.generate_data in the generator's loop
GenerateKwargsDefault == EmptyMap

GenerateKwargs == generate_values

\* model.generate_data(**self.generate_values) raises
GenerateDataRaises ==
    /\ pc = "gen_loop"
    /\ i_mc < args.n_mc
    /\ args.toydata_mode \in {"generate", "generate_and_write"}
    /\ generated' = generated + 1
    /\ generate_calls' = Append(generate_calls, GenerateKwargs)
    /\ Raise("generate_data raised")
    /\ UNCHANGED <<args, caller_generate_values, heap, refs, generate_values,
                   common_hypothesis, hypotheses_values, expectation_queries,
                   toyfile, toydata, i_mc, data, model_data, file_reads, h_idx,
                   fit_results, fits, results, toydata_writes, output_writes,
                   warnings>>
    /\ UNCHANGED <<yielded, assignments, ci_calls, gen_done>>
    /\ UNCHANGED subvars

\* one turn of the generator's loop in generate or generate_and_write mode
GenYieldGenerate ==
    /\ pc = "gen_loop"
    /\ i_mc < args.n_mc
    /\ args.toydata_mode \in {"generate", "generate_and_write"}
    /\ \E t \in BOOLEAN :
        /\ data' = Generated(generated, t)
        /\ toydata' = IF args.toydata_mode = "generate_and_write"
                      THEN Append(toydata, Generated(generated, t))
                      ELSE toydata
        /\ yielded' = Append(yielded, Generated(generated, t))
    /\ generated' = generated + 1
    /\ generate_calls' = Append(generate_calls, GenerateKwargs)
    /\ pc' = "yielded"
    /\ UNCHANGED <<assignments, ci_calls, gen_done>>
    /\ UNCHANGED <<args, caller_generate_values, heap, refs, error, generate_values,
                   common_hypothesis, hypotheses_values, expectation_queries,
                   toyfile, i_mc, model_data, file_reads, h_idx, fit_results,
                   fits, results, toydata_writes, output_writes, warnings>>
    /\ UNCHANGED subvars

\* one turn of the generator's loop in read mode
GenYieldRead ==
    /\ pc = "gen_loop"
    /\ i_mc < args.n_mc
    /\ args.toydata_mode = "read"
    /\ data' = toydata[i_mc + 1]
    /\ yielded' = Append(yielded, toydata[i_mc + 1])
    /\ pc' = "yielded"
    /\ UNCHANGED <<generate_calls, assignments, ci_calls, gen_done>>
    /\ UNCHANGED <<args, caller_generate_values, heap, refs, error, generate_values,
                   common_hypothesis, hypotheses_values, expectation_queries,
                   toyfile, toydata, i_mc, model_data, generated, file_reads,
                   h_idx, fit_results, fits, results, toydata_writes,
                   output_writes, warnings>>
    /\ UNCHANGED subvars

\* one turn of the generator's loop in no_toydata mode
GenYieldNone ==
    /\ pc = "gen_loop"
    /\ i_mc < args.n_mc
    /\ args.toydata_mode = "no_toydata"
    /\ data' = NoData
    /\ yielded' = Append(yielded, NoData)
    /\ pc' = "yielded"
    /\ UNCHANGED <<generate_calls, assignments, ci_calls, gen_done>>
    /\ UNCHANGED <<args, caller_generate_values, heap, refs, error, generate_values,
                   common_hypothesis, hypotheses_values, expectation_queries,
                   toyfile, toydata, i_mc, model_data, generated, file_reads,
                   h_idx, fit_results, fits, results, toydata_writes,
                   output_writes, warnings>>
    /\ UNCHANGED subvars

\* toydata_names of the modes that do not read
NoNames == "None"

\* write_toydata(toydata, toydata_names): the arguments of the store_data call
\* it makes, others being the arguments passed besides the file name, the
\* datasets and their names
WriteToydata(toydata_, toydata_names) ==
    [data_list |-> toydata_, data_name_list |-> toydata_names, others |-> {}]

\* the generator saves the toy data when its loop is over
FlushDueWhenGenerated(toydata_mode) ==
    toydata_mode \in {"generate", "generate_and_write"}

FlushDue(toydata_mode) == toydata_mode = "generate_and_write"

\* for i_mc in range(self._n_mc) is exhausted
LoopOverBeforeLast == i_mc + 1 >= args.n_mc

LoopOver == i_mc >= args.n_mc

\* model.store_data raises in write_toydata
WriteToydataRaises ==
    /\ pc = "gen_loop"
    /\ LoopOver
    /\ FlushDue(args.toydata_mode)
    /\ toydata_writes' = Append(toydata_writes, WriteToydata(toydata, NoNames))
    /\ Raise("store_data raised")
    /\ UNCHANGED <<args, caller_generate_values, heap, refs, generate_values,
                   common_hypothesis, hypotheses_values, expectation_queries,
                   toyfile, toydata, i_mc, data, model_data, generated,
                   file_reads, h_idx, fit_results, fits, results, output_writes,
                   warnings>>
    /\ UNCHANGED logvars
    /\ UNCHANGED subvars

\* the generator's loop is over: the toy data are saved in generate_and_write
\* mode and the generator ends
GenFinish ==
    /\ pc = "gen_loop"
    /\ LoopOver
    /\ toydata_writes' = IF FlushDue(args.toydata_mode)
                         THEN Append(toydata_writes, WriteToydata(toydata, NoNames))
                         ELSE toydata_writes
    /\ gen_done' = TRUE
    /\ pc' = IF args.only_toydata THEN "done" ELSE "write_output"
    /\ UNCHANGED <<yielded, generate_calls, assignments, ci_calls>>
    /\ UNCHANGED <<args, caller_generate_values, heap, refs, error, generate_values,
                   common_hypothesis, hypotheses_values, expectation_queries,
                   toyfile, toydata, i_mc, data, model_data, generated,
                   file_reads, h_idx, fit_results, fits, results, output_writes,
                   warnings>>
    /\ UNCHANGED subvars

\* simulate(): all(...) takes the yielded dataset, asks for the next one when
\* it is truthy and returns at once when it is not
SimulateConsume ==
    /\ pc = "yielded"
    /\ args.only_toydata
    /\ IF data.truthy
       THEN pc' = "gen_loop" /\ i_mc' = i_mc + 1
       ELSE pc' = "done" /\ i_mc' = i_mc
    /\ UNCHANGED logvars
    /\ UNCHANGED <<args, caller_generate_values, heap, refs, error, generate_values,
                   common_hypothesis, hypotheses_values, expectation_queries,
                   toyfile, toydata, data, model_data, generated, file_reads,
                   h_idx, fit_results, fits, results, toydata_writes,
                   output_writes, warnings>>
    /\ UNCHANGED subvars

\* the setter of model.data raises, and the model keeps the data it had
AssignDataRaises ==
    /\ pc = "yielded"
    /\ ~args.only_toydata
    /\ assignments' = Append(assignments, [i |-> i_mc, data |-> data])
    /\ Raise("model.data setter raised")
    /\ UNCHANGED <<args, caller_generate_values, heap, refs, generate_values,
                   common_hypothesis, hypotheses_values, expectation_queries,
                   toyfile, toydata, i_mc, data, model_data, generated,
                   file_reads, h_idx, fit_results, fits, results,
                   toydata_writes, output_writes, warnings>>
    /\ UNCHANGED <<yielded, generate_calls, ci_calls, gen_done>>
    /\ UNCHANGED subvars

\* simulate_and_fit(): the head of the loop body, self.model.data = data
AssignDataKeepsOld ==
    /\ pc = "yielded"
    /\ ~args.only_toydata
    /\ model_data' = model_data
    /\ assignments' = Append(assignments, [i |-> i_mc, data |-> data])
    /\ fit_results' = <<>>
    /\ h_idx' = 1
    /\ pc' = "fitting"
    /\ UNCHANGED <<args, caller_generate_values, heap, refs, error, generate_values,
                   common_hypothesis, hypotheses_values, expectation_queries,
                   toyfile, toydata, i_mc, data, generated, file_reads, fits,
                   results, toydata_writes, output_writes, warnings>>
    /\ UNCHANGED <<yielded, generate_calls, ci_calls, gen_done>>
    /\ UNCHANGED subvars

AssignData ==
    /\ pc = "yielded"
    /\ ~args.only_toydata
    /\ model_data' = data
    /\ assignments' = Append(assignments, [i |-> i_mc, data |-> data])
    /\ UNCHANGED <<yielded, generate_calls, ci_calls, gen_done>>
    /\ fit_results' = <<>>
    /\ h_idx' = 1
    /\ pc' = "fitting"
    /\ UNCHANGED <<args, caller_generate_values, heap, refs, error, generate_values,
                   common_hypothesis, hypotheses_values, expectation_queries,
                   toyfile, toydata, i_mc, data, generated, file_reads, fits,
                   results, toydata_writes, output_writes, warnings>>
    /\ UNCHANGED subvars

\* the check of a resolved hypothesis against the fittable parameters
IsFittableSubsetUnchecked(hv) == TRUE

IsFittableSubset(hv) == (DOMAIN hv) \ Fittable = {}

\* whether the confidence interval of a resolved hypothesis is computed
ComputesIntervalWhenEnabled(hv) == args.compute_confidence_interval

ComputesInterval(hv) ==
    args.compute_confidence_interval /\ args.poi \notin DOMAIN hv

\* the record of one fit: the fitted values and ll of the fit of hypothesis
\* h_idx on the data the model holds, and dl, ul from the confidence interval
\* (ci) or NaN
FitResult(hv) ==
    [i |-> i_mc, h |-> h_idx, data |-> model_data, hyp |-> hv,
     ci |-> ComputesInterval(hv)]

\* the arguments of model.confidence_interval
ConfidenceIntervalCall(hv) ==
    [i |-> i_mc, h |-> h_idx, poi_name |-> args.poi,
     best_fit_args |-> hypotheses_values[1], confidence_interval_args |-> hv]

\* simulate_and_fit(): one turn of the loop over the hypotheses
Fit ==
    /\ pc = "fitting"
    /\ h_idx <= Len(hypotheses_values)
    /\ LET hv == hypotheses_values[h_idx]
       IN  IF ~IsFittableSubset(hv)
           THEN /\ pc' = "run_failed"
                /\ error' = "ValueError: hypothesis should be a subset of the fittable parameters"
                /\ UNCHANGED <<fits, fit_results, h_idx, ci_calls>>
           ELSE /\ fits' = Append(fits, FitResult(hv))
                /\ fit_results' = Append(fit_results, FitResult(hv))
                /\ ci_calls' = IF ComputesInterval(hv)
                               THEN Append(ci_calls, ConfidenceIntervalCall(hv))
                               ELSE ci_calls
                /\ h_idx' = h_idx + 1
                /\ UNCHANGED <<pc, error>>
    /\ UNCHANGED <<args, caller_generate_values, heap, refs, generate_values,
                   common_hypothesis, hypotheses_values, expectation_queries,
                   toyfile, toydata, i_mc, data, model_data, generated,
                   file_reads, results, toydata_writes, output_writes, warnings>>
    /\ UNCHANGED <<yielded, generate_calls, assignments, gen_done>>
    /\ UNCHANGED subvars

\* model.fit(**hypothesis_values) raises
FitRaises ==
    /\ pc = "fitting"
    /\ h_idx <= Len(hypotheses_values)
    /\ IsFittableSubset(hypotheses_values[h_idx])
    /\ fits' = Append(fits, FitResult(hypotheses_values[h_idx]))
    /\ Raise("fit raised")
    /\ UNCHANGED <<args, caller_generate_values, heap, refs, generate_values,
                   common_hypothesis, hypotheses_values, expectation_queries,
                   toyfile, toydata, i_mc, data, model_data, generated,
                   file_reads, h_idx, fit_results, results, toydata_writes,
                   output_writes, warnings>>
    /\ UNCHANGED logvars
    /\ UNCHANGED subvars

\* model.confidence_interval(...) raises, after the fit has returned
ConfidenceIntervalRaises ==
    /\ pc = "fitting"
    /\ h_idx <= Len(hypotheses_values)
    /\ IsFittableSubset(hypotheses_values[h_idx])
    /\ ComputesInterval(hypotheses_values[h_idx])
    /\ fits' = Append(fits, FitResult(hypotheses_values[h_idx]))
    /\ ci_calls' = Append(ci_calls,
                          ConfidenceIntervalCall(hypotheses_values[h_idx]))
    /\ Raise("confidence_interval raised")
    /\ UNCHANGED <<args, caller_generate_values, heap, refs, generate_values,
                   common_hypothesis, hypotheses_values, expectation_queries,
                   toyfile, toydata, i_mc, data, model_data, generated,
                   file_reads, h_idx, fit_results, results, toydata_writes,
                   output_writes, warnings>>
    /\ UNCHANGED <<yielded, generate_calls, assignments, gen_done>>
    /\ UNCHANGED subvars

\* simulate_and_fit(): the records of the iteration go into row i_mc of the
\* tables, and the loop asks the generator for the next dataset
AssignRowsFirstTable ==
    /\ pc = "fitting"
    /\ h_idx > Len(hypotheses_values)
    /\ results' = [h \in 1..Len(results) |->
                      IF h = 1
                      THEN [results[h] EXCEPT !.rows[i_mc + 1] = fit_results[h]]
                      ELSE results[h]]
    /\ i_mc' = i_mc + 1
    /\ pc' = "gen_loop"
    /\ UNCHANGED <<args, caller_generate_values, heap, refs, error, generate_values,
                   common_hypothesis, hypotheses_values, expectation_queries,
                   toyfile, toydata, data, model_data, generated, file_reads,
                   h_idx, fit_results, fits, toydata_writes, output_writes,
                   warnings>>
    /\ UNCHANGED logvars
    /\ UNCHANGED subvars

AssignRows ==
    /\ pc = "fitting"
    /\ h_idx > Len(hypotheses_values)
    /\ results' = [h \in 1..Len(results) |->
                      [results[h] EXCEPT !.rows[i_mc + 1] = fit_results[h]]]
    /\ i_mc' = i_mc + 1
    /\ pc' = "gen_loop"
    /\ UNCHANGED logvars
    /\ UNCHANGED <<args, caller_generate_values, heap, refs, error, generate_values,
                   common_hypothesis, hypotheses_values, expectation_queries,
                   toyfile, toydata, data, model_data, generated, file_reads,
                   h_idx, fit_results, fits, toydata_writes, output_writes,
                   warnings>>
    /\ UNCHANGED subvars

\* f"{i:d}": the decimal digits of i
Digit(d) ==
    CASE d = 0 -> "0" [] d = 1 -> "1" [] d = 2 -> "2" [] d = 3 -> "3"
      [] d = 4 -> "4" [] d = 5 -> "5" [] d = 6 -> "6" [] d = 7 -> "7"
      [] d = 8 -> "8" [] d = 9 -> "9"

RECURSIVE Decimal(_)
Decimal(i) ==
    IF i < 10 THEN <<Digit(i)>> ELSE Decimal(i \div 10) \o <<Digit(i % 10)>>

\* write_output: the name of the table of the hypothesis at index i (from 0)
ResultName(i) ==
    IF args.hypotheses[i + 1].kind \in {"free", "null", "true"}
    THEN <<args.hypotheses[i + 1].kind>>
    ELSE Decimal(i)

\* datetime.now(), formatted
Dates == {<<"today">>, <<"tomorrow">>}

\* write_output: the metadata of the file, from the user's and the Runner's
OutputMetadataUserFirst(user, date) ==
    [k \in (DOMAIN user) \cup {"date", "poi", "common_hypothesis", "generate_values"} |->
        IF k \in DOMAIN user THEN user[k]
        ELSE CASE k = "date" -> MetaName(date)
               [] k = "poi" -> MetaName(args.poi)
               [] k = "common_hypothesis" -> MetaMap(common_hypothesis)
               [] k = "generate_values" -> MetaMap(generate_values)]

OutputMetadata(user, date) ==
    [k \in (DOMAIN user) \cup {"date", "poi", "common_hypothesis", "generate_values"} |->
        CASE k = "date" -> MetaName(date)
          [] k = "poi" -> MetaName(args.poi)
          [] k = "common_hypothesis" -> MetaMap(common_hypothesis)
          [] k = "generate_values" -> MetaMap(generate_values)
          [] OTHER -> user[k]]

\* write_output: the arguments of the numpy_to_toyfile call
NumpyToToyfile(date) ==
    [numpy_arrays_and_names |->
         [k \in 1..Len(results) |->
             [array |-> results[k], name |-> ResultName(k - 1)]],
     metadata |-> OutputMetadata(args.metadata, date),
     array_metadatas |->
         [k \in 1..Len(hypotheses_values) |->
             [hypotheses_values |-> hypotheses_values[k]]]]

\* the tables of a numpy_to_toyfile call
WrittenTables(call) ==
    [k \in 1..Len(call.numpy_arrays_and_names) |->
        call.numpy_arrays_and_names[k].array]

\* write_output: metadata = deepcopy(self._metadata), then the Runner's keys
\* are set in it
WriteOutputObjects(date) ==
    LET metadata == DeepCopy(heap.meta, refs.metadata, FileMetadata)
    IN  [heap EXCEPT !.meta =
            [metadata.objects EXCEPT ![metadata.ref] = OutputMetadata(@, date)]]

\* write_output(results) raises
WriteOutputRaises ==
    /\ pc = "write_output"
    /\ \E date \in Dates :
           /\ output_writes' = Append(output_writes, NumpyToToyfile(date))
           /\ heap' = WriteOutputObjects(date)
    /\ Raise("write_output raised")
    /\ UNCHANGED <<args, caller_generate_values, refs, generate_values,
                   common_hypothesis, hypotheses_values, expectation_queries,
                   toyfile, toydata, i_mc, data, model_data, generated,
                   file_reads, h_idx, fit_results, fits, results,
                   toydata_writes, warnings>>
    /\ UNCHANGED logvars
    /\ UNCHANGED subvars

\* run(): write_output(results)
WriteOutput ==
    /\ pc = "write_output"
    /\ \E date \in Dates :
           /\ output_writes' = Append(output_writes, NumpyToToyfile(date))
           /\ heap' = WriteOutputObjects(date)
    /\ pc' = "done"
    /\ UNCHANGED logvars
    /\ UNCHANGED <<args, caller_generate_values, refs, error, generate_values,
                   common_hypothesis, hypotheses_values, expectation_queries,
                   toyfile, toydata, i_mc, data, model_data, generated,
                   file_reads, h_idx, fit_results, fits, results,
                   toydata_writes, warnings>>
    /\ UNCHANGED subvars

Next ==
    \/ ConstructValidation
    \/ ConstructLoop
    \/ ConstructOutput
    \/ Run
    \/ GenStart
    \/ ReadToydataRaises
    \/ GenerateDataRaises
    \/ GenYieldGenerate
    \/ GenYieldRead
    \/ GenYieldNone
    \/ WriteToydataRaises
    \/ GenFinish
    \/ SimulateConsume
    \/ AssignDataRaises
    \/ AssignData
    \/ Fit
    \/ FitRaises
    \/ ConfidenceIntervalRaises
    \/ AssignRows
    \/ WriteOutputRaises
    \/ WriteOutput

Spec == Init /\ [][Next]_vars

\* ------------------------------------------- the Submitter's generators
\* the largest number of grid points, the largest n_batch and the largest
\* number of keys of a grid point
MaxGrid == 2

MaxBatch == 3

MaxKeys == 3

IBatch == <<"i_batch">>
Bogus == <<"bogus">>

\* the keys merged_arguments_generator allows in computation
AllowedKeys == {"to_zip", "to_vary", "in_common"}

\* the keys a grid point may set, each with the values it may have
GridPoints ==
    LET all ==
          {MapOf(a \cup b \cup c \cup d \cup e \cup f \cup g \cup h \cup i) :
             a \in {{}, {<<NMc, VInt(4)>>}},
             b \in {{}} \cup {{<<NBatch, VInt(n)>>} : n \in 0..MaxBatch},
             c \in {{}, {<<OutputFilename, VStr(<<"out", ".h5">>)>>},
                    {<<OutputFilename, VStr(<<"out", ".h5">>)>>,
                     <<ToydataFilename, VStr(<<"toy", ".h5">>)>>}},
             d \in {{}, {<<Mu, VInt(1)>>}, {<<Mu, VStr(<<"one">>)>>}},
             e \in {{}, {<<Kappa, VInt(2)>>}, {<<Kappa, VStr(<<"two">>)>>}},
             f \in {{}, {<<GenerateValues, VDict(MapOf({<<Sigma, VInt(2)>>}))>>},
                    {<<GenerateValues, VDict(MapOf({<<Kappa, VInt(1)>>}))>>}},
             g \in {{}, {<<Poi, VStr(<<"mu">>)>>}},
             h \in {{}, {<<Bogus, VInt(1)>>}},
             i \in {{}, {<<LimitThreshold, VStr(<<"threshold", ".json">>)>>}}}
    IN  {p \in all : Cardinality(DOMAIN p) <= MaxKeys}

\* a grid of len points with the keys of p: a varied mu takes the values
\* 1, 2, ...
Grid(p, len) ==
    [k \in 1..len |->
        IF Mu \in DOMAIN p /\ p[Mu].t = "int"
        THEN [p EXCEPT ![Mu] = VInt(k)]
        ELSE p]

\* the Submitters a subclass may construct
Submitters ==
    [computation : [keys : {{"to_vary"}, {"to_zip", "in_common"},
                            {"to_vary", "to_very"}},
                    variations : {Grid(p, len) : p \in GridPoints,
                                                 len \in 1..MaxGrid}],
     allowed_special_args : {{}, {OutputFilename, ToydataFilename}},
     template_path : {VNone, VStr(<<"templates">>)}]

\* compute_variations(to_zip, to_vary, in_common): the list of grid points
ComputeVariations(computation) == computation.variations

\* can_assign_to_typing(value_type, annotation)
CanAssignToTyping(value_type, annotation) == value_type \in annotation

\* "{:.4f}".format(n / d)
Fixed4(n, d) ==
    LET q == (2 * n * 10000 + d) \div (2 * d)
    IN  Decimal(q \div 10000) \o
        <<".", Digit((q \div 1000) % 10), Digit((q \div 100) % 10),
          Digit((q \div 10) % 10), Digit(q % 10)>>

\* text.replace(" ", "") on a string
StripSpaces(v) ==
    IF v.t = "str" THEN [v EXCEPT !.s = SelectSeq(@, LAMBDA c : c # " ")]
    ELSE v

\* the JSON document that denotes a value, and the value a document denotes
JsonTag(t) ==
    CASE t = "dict" -> "json_object"
      [] t = "list" -> "json_array"
      [] t = "str" -> "json_string"
      [] t = "int" -> "json_number"
      [] t = "float" -> "json_real"
      [] t = "bool" -> "json_bool"
      [] OTHER -> "json_null"

JsonTags ==
    {"json_object", "json_array", "json_string", "json_number", "json_real",
     "json_bool", "json_null"}

PythonType(tag) ==
    CASE tag = "json_object" -> "dict"
      [] tag = "json_array" -> "list"
      [] tag = "json_string" -> "str"
      [] tag = "json_number" -> "int"
      [] tag = "json_real" -> "float"
      [] tag = "json_bool" -> "bool"
      [] OTHER -> "none"

\* json.dumps(value).replace(" ", ""): the JSON document of value, the
\* spaces taken out of the separators and out of every string in it (the
\* items of a list are words without spaces)
Dumps(v) ==
    [StripSpaces(v) EXCEPT
        !.t = JsonTag(v.t),
        !.m = [k \in DOMAIN v.m |-> StripSpaces(v.m[k])]]

\* arg_to_str(value, annotation): the error it raises, the text it returns
ArgToStrError(v, annotation) ==
    CASE v.t = "none" -> NoError
      [] CanAssignToTyping("str", annotation) -> NoError
      [] CanAssignToTyping("int", annotation) ->
            IF v.t \in {"int", "bool"} THEN NoError
            ELSE "ValueError: Unknown format code 'd'"
      [] CanAssignToTyping("float", annotation) ->
            IF v.t \in {"int", "bool", "float"} THEN NoError
            ELSE "ValueError: Unknown format code 'f'"
      [] CanAssignToTyping("bool", annotation) -> NoError
      [] CanAssignToTyping("dict", annotation)
           \/ CanAssignToTyping("list", annotation) ->
            NoError
      [] OTHER -> "ValueError: Unknown annotation type"

ArgToStr(v, annotation) ==
    CASE v.t = "none" -> VStr(<<"None">>)
      [] CanAssignToTyping("str", annotation) -> v
      [] CanAssignToTyping("int", annotation) -> VStr(Decimal(v.n))
      [] CanAssignToTyping("float", annotation) -> VStr(Fixed4(v.n, v.d))
      [] CanAssignToTyping("bool", annotation) ->
            CASE v.t = "bool" ->
                     VStr(IF v.n = 1 THEN <<"True">> ELSE <<"False">>)
              [] v.t = "str" -> v
              [] v.t = "int" -> VStr(Decimal(v.n))
              [] OTHER -> [v EXCEPT !.t = "repr"]
      [] OTHER -> Dumps(v)

\* the value of a decimal digit, -1 for any other character
DigitValue(c) ==
    CASE c = "0" -> 0 [] c = "1" -> 1 [] c = "2" -> 2 [] c = "3" -> 3
      [] c = "4" -> 4 [] c = "5" -> 5 [] c = "6" -> 6 [] c = "7" -> 7
      [] c = "8" -> 8 [] c = "9" -> 9 [] OTHER -> -1

IsDigits(text) ==
    /\ Len(text) > 0
    /\ \A k \in 1..Len(text) : DigitValue(text[k]) >= 0

\* int(text), text all digits
RECURSIVE ParseInt(_)
ParseInt(text) ==
    IF Len(text) = 0 THEN 0
    ELSE 10 * ParseInt(SubSeq(text, 1, Len(text) - 1))
             + DigitValue(text[Len(text)])

\* where the decimal point of a text is (0: nowhere)
PointAt(text) ==
    IF \E k \in 1..Len(text) : text[k] = "."
    THEN CHOOSE k \in 1..Len(text) : text[k] = "."
    ELSE 0

\* float(text) accepts digits, or digits "." digits
IsReal(text) ==
    \/ IsDigits(text)
    \/ /\ PointAt(text) > 1
       /\ IsDigits(SubSeq(text, 1, PointAt(text) - 1))
       /\ IsDigits(SubSeq(text, PointAt(text) + 1, Len(text)))

RECURSIVE Power10(_)
Power10(k) == IF k = 0 THEN 1 ELSE 10 * Power10(k - 1)

\* float(text)
ParseReal(text) ==
    IF PointAt(text) = 0 THEN VFloat(ParseInt(text), 1)
    ELSE LET frac == SubSeq(text, PointAt(text) + 1, Len(text))
             den == Power10(Len(frac))
             num == ParseInt(SubSeq(text, 1, PointAt(text) - 1)) * den
                        + ParseInt(frac)
             g == GCD(num, den)
         IN  IF num = 0 THEN VFloat(0, 1) ELSE VFloat(num \div g, den \div g)

\* json.loads(text): the error it raises, the value it returns
LoadsError(text) ==
    IF text.t \in JsonTags \/ (text.t = "str" /\ IsDigits(text.s))
    THEN NoError
    ELSE "JSONDecodeError"

Loads(text) ==
    IF text.t \in JsonTags THEN [text EXCEPT !.t = PythonType(text.t)]
    ELSE VInt(ParseInt(text.s))

\* the text "None"
NoneText == VStr(<<"None">>)

\* str_to_arg(value, annotation): the error it raises, the value it returns
StrToArgError(text, annotation) ==
    CASE text = NoneText -> NoError
      [] CanAssignToTyping("str", annotation) -> NoError
      [] CanAssignToTyping("int", annotation) ->
            IF text.t = "str" /\ IsDigits(text.s) THEN NoError
            ELSE "ValueError: invalid literal for int()"
      [] CanAssignToTyping("float", annotation) ->
            IF text.t = "str" /\ IsReal(text.s) THEN NoError
            ELSE "ValueError: could not convert string to float"
      [] CanAssignToTyping("bool", annotation) ->
            IF text \in {VStr(<<"True">>), VStr(<<"False">>)} THEN NoError
            ELSE "ValueError: Unknown value type"
      [] CanAssignToTyping("dict", annotation)
           \/ CanAssignToTyping("list", annotation) -> LoadsError(text)
      [] OTHER -> "ValueError: Unknown annotation type"

StrToArg(text, annotation) ==
    CASE text = NoneText -> VNone
      [] CanAssignToTyping("str", annotation) -> text
      [] CanAssignToTyping("int", annotation) -> VInt(ParseInt(text.s))
      [] CanAssignToTyping("float", annotation) -> ParseReal(text.s)
      [] CanAssignToTyping("bool", annotation) -> VBool(text = VStr(<<"True">>))
      [] OTHER -> Loads(text)

\* str.format(i_batch=i, ...) on a file name
Format(text, i) ==
    LET at == {k \in 1..Len(text) : text[k] = "_{i_batch:d}"}
    IN  IF at = {} THEN text
        ELSE LET k == CHOOSE k \in at : TRUE
             IN  SubSeq(text, 1, k - 1) \o <<"_">> \o Decimal(i) \o
                 SubSeq(text, k + 1, Len(text))

\* annotations.items(): the annotated parameters in the order of the signature
AnnotatedParameters(ann) ==
    SelectSeq(ArgSpecArgs, LAMBDA name : name \in DOMAIN ann)

\* the script of a ticket: its words after the program's name, a --name and
\* a value each (the value as the shell hands it on)
Script(i_args, ann) ==
    LET order == AnnotatedParameters(ann)
    IN  [k \in 1..Len(order) |->
            [arg |-> order[k],
             value |-> ArgToStr(i_args[order[k]], ann[order[k]])]]

\* the first error arg_to_str raises while the script is built, or the
\* error of " ".join when arg_to_str returned something that is not a string
ScriptError(i_args, ann) ==
    LET order == AnnotatedParameters(ann)
        bad == {k \in 1..Len(order) :
                   ArgToStrError(i_args[order[k]], ann[order[k]]) # NoError}
        odd == {k \in 1..Len(order) :
                   ArgToStr(i_args[order[k]], ann[order[k]]).t
                       \notin {"str", "repr"} \cup JsonTags}
    IN  IF bad # {}
        THEN ArgToStrError(i_args[order[CHOOSE k \in bad : \A l \in bad : k <= l]],
                           ann[order[CHOOSE k \in bad : \A l \in bad : k <= l]])
        ELSE IF odd # {}
        THEN "TypeError: sequence item: expected str instance"
        ELSE NoError

\* runner_args.get("n_batch", 1)
NBatchOf(ra) == IF NBatch \in DOMAIN ra THEN ra[NBatch].n ELSE 1

\* a generator raised e
SubRaise(e) ==
    /\ sub_pc' = "failed"
    /\ sub_error' = e

\* computation_tickets_generator and merged_arguments_generator up to the
\* loop over the grid
SubmitterStart ==
    /\ sub_pc = "idle"
    /\ \E s \in Submitters :
         /\ submitter' = s
         /\ annotations' = RunnerArguments.annotations
         /\ default_args' = RunnerArguments.default_args
         /\ IF s.computation.keys \ AllowedKeys # {}
            THEN /\ SubRaise("ValueError: unknown computation options")
                 /\ UNCHANGED merged_args_list
            ELSE /\ merged_args_list' = ComputeVariations(s.computation)
                 /\ IF Len(merged_args_list') = 0
                    THEN SubRaise("IndexError: list index out of range")
                    ELSE IF (DOMAIN merged_args_list'[1])
                              \cap (DOMAIN CommonRunnerArgs) # {}
                    THEN SubRaise("ValueError: already specified in the submitter")
                    ELSE /\ sub_pc' = "grid"
                         /\ UNCHANGED sub_error
    /\ UNCHANGED <<i_grid, runner_args, n_mc_requested, i_batch, yielded_args,
                   args_given, tickets>>
    /\ UNCHANGED conv
    /\ UNCHANGED runnervars

\* merged_arguments_generator: one turn of its loop, up to the yield
MergedArguments ==
    /\ sub_pc = "grid"
    /\ i_grid < Len(merged_args_list)
    /\ i_grid' = i_grid + 1
    /\ i_batch' = 0
    /\ LET merged == merged_args_list[i_grid + 1]
           given == Update(Update(default_args, merged), CommonRunnerArgs)
           batched == UpdateNBatch(given)
           placed == UpdateOutputToydata(batched.args, OutputFolder)
           moved == UpdateRunnerArgs(placed, ParametersFittable,
                                     ParametersNotFittable)
           limited == UpdateLimitThreshold(moved.args, OutputFolder)
           final == UpdateStatisticalModelArgs(limited, submitter.template_path)
           redundant == CheckRedundantArguments(final,
                                                submitter.allowed_special_args)
       IN  /\ n_mc_requested' = given[NMc].n
           /\ IF batched.err # NoError
              THEN /\ SubRaise(batched.err)
                   /\ runner_args' = batched.args
                   /\ UNCHANGED <<args_given, yielded_args>>
              ELSE /\ args_given' = placed
                   /\ IF moved.err # NoError
                      THEN /\ SubRaise(moved.err)
                           /\ runner_args' = moved.args
                           /\ UNCHANGED yielded_args
                      ELSE /\ runner_args' = final
                           /\ IF redundant # NoError
                              THEN /\ SubRaise(redundant)
                                   /\ UNCHANGED yielded_args
                              ELSE /\ sub_pc' = "batches"
                                   /\ yielded_args' = Append(yielded_args, final)
                                   /\ UNCHANGED sub_error
    /\ UNCHANGED <<submitter, default_args, annotations, merged_args_list,
                   tickets>>
    /\ UNCHANGED conv
    /\ UNCHANGED runnervars

\* computation_tickets_generator: one turn of the loop over the batches
Ticket ==
    /\ sub_pc = "batches"
    /\ i_batch < NBatchOf(runner_args)
    /\ LET numbered == Update(runner_args, [k \in {IBatch} |-> VInt(i_batch)])
           i_args == [k \in DOMAIN numbered |->
                        IF /\ k \in {OutputFilename, ToydataFilename,
                                     LimitThreshold}
                           /\ numbered[k].t # "none"
                        THEN VStr(Format(numbered[k].s, i_batch))
                        ELSE numbered[k]]
       IN  IF ScriptError(i_args, annotations) # NoError
           THEN /\ SubRaise(ScriptError(i_args, annotations))
                /\ UNCHANGED <<tickets, i_batch>>
           ELSE IF OutputFilename \notin DOMAIN i_args
           THEN /\ SubRaise("KeyError: 'output_filename'")
                /\ UNCHANGED <<tickets, i_batch>>
           ELSE /\ tickets' = Append(tickets,
                                     [script |-> Script(i_args, annotations),
                                      output_filename |-> i_args[OutputFilename],
                                      i_grid |-> i_grid,
                                      i_batch |-> i_batch])
                /\ i_batch' = i_batch + 1
                /\ UNCHANGED <<sub_pc, sub_error>>
    /\ UNCHANGED <<submitter, default_args, annotations, merged_args_list,
                   i_grid, runner_args, n_mc_requested, yielded_args,
                   args_given>>
    /\ UNCHANGED conv
    /\ UNCHANGED runnervars

\* the loop over the batches is over: on to the next grid point
BatchesDone ==
    /\ sub_pc = "batches"
    /\ i_batch >= NBatchOf(runner_args)
    /\ sub_pc' = "grid"
    /\ UNCHANGED <<sub_error, submitter, default_args, annotations,
                   merged_args_list, i_grid, runner_args, n_mc_requested,
                   i_batch, yielded_args, args_given, tickets>>
    /\ UNCHANGED conv
    /\ UNCHANGED runnervars

\* the loop over the grid is over: both generators are exhausted
GridDone ==
    /\ sub_pc = "grid"
    /\ i_grid >= Len(merged_args_list)
    /\ sub_pc' = "done"
    /\ UNCHANGED <<sub_error, submitter, default_args, annotations,
                   merged_args_list, i_grid, runner_args, n_mc_requested,
                   i_batch, yielded_args, args_given, tickets>>
    /\ UNCHANGED conv
    /\ UNCHANGED runnervars

SubNext ==
    \/ SubmitterStart
    \/ MergedArguments
    \/ Ticket
    \/ BatchesDone
    \/ GridDone

SubSpec == Init /\ [][SubNext]_vars

\* ------------------------------------------ arg_to_str and str_to_arg
\* the annotations of the Runner's parameters, and one that is not supported
Unsupported == {"tuple"}

ArgAnnotations ==
    {Signature[k].annotation : k \in 2..Len(Signature)}
        \cup {{"dict"}, {"float", "none"}, Unsupported}

\* values of the supported types
ArgValues ==
    {VNone, VBool(TRUE), VBool(FALSE), VFloat(9, 10), VFloat(1, 3)}
        \cup {VInt(i) : i \in {0, 3, 12}}
        \cup {VStr(w) : w \in {<<"mu">>, <<"None">>, <<"a", " ", "b">>,
                                <<"True">>, <<"out", ".h5">>}}
        \cup {VList(l) : l \in {<<>>, <<"free">>, <<"free", "null">>}}
        \cup {VDict(m) : m \in {EmptyMap,
                                 MapOf({<<Mu, VInt(1)>>}),
                                 MapOf({<<Mu, VFloat(1, 2)>>, <<Sigma, VNone>>}),
                                 MapOf({<<Mu, VStr(<<"a", " ", "b">>)>>}),
                                 MapOf({<<Mu, VStr(<<"ab">>)>>})}}

\* the words of a command line
ArgTexts ==
    {VStr(w) : w \in {<<"None">>, <<"True">>, <<"False">>, <<"true">>,
                       <<"1">>, <<"1", "2">>, <<"0", ".", "9">>, <<"mu">>}}
        \cup {Dumps(VDict(MapOf({<<Mu, VInt(1)>>}))), Dumps(VList(<<"free">>))}

Conversion(stage, value, annotation, text, back, err) ==
    [stage |-> stage, value |-> value, annotation |-> annotation,
     text |-> text, back |-> back, err |-> err]

\* text = Submitter.arg_to_str(value, annotation)
ArgToStrCall ==
    /\ conv.stage = "none"
    /\ \E v \in ArgValues, annotation \in ArgAnnotations :
         conv' = IF ArgToStrError(v, annotation) # NoError
                 THEN Conversion("arg_to_str raised", v, annotation, VNone,
                                 VNone, ArgToStrError(v, annotation))
                 ELSE Conversion("text", v, annotation,
                                 ArgToStr(v, annotation), VNone, NoError)
    /\ UNCHANGED <<sub_pc, sub_error, submitter, default_args, annotations,
                   merged_args_list, i_grid, runner_args, n_mc_requested,
                   i_batch, yielded_args, args_given, tickets>>
    /\ UNCHANGED runnervars

\* Submitter.str_to_arg(text, annotation), text what arg_to_str returned
StrToArgBack ==
    /\ conv.stage = "text"
    /\ conv' = IF StrToArgError(conv.text, conv.annotation) # NoError
               THEN [conv EXCEPT !.stage = "str_to_arg raised",
                                 !.err = StrToArgError(conv.text,
                                                       conv.annotation)]
               ELSE [conv EXCEPT !.stage = "back",
                                 !.back = StrToArg(conv.text, conv.annotation)]
    /\ UNCHANGED <<sub_pc, sub_error, submitter, default_args, annotations,
                   merged_args_list, i_grid, runner_args, n_mc_requested,
                   i_batch, yielded_args, args_given, tickets>>
    /\ UNCHANGED runnervars

\* Submitter.str_to_arg(text, annotation), text a word of a command line
StrToArgCall ==
    /\ conv.stage = "none"
    /\ \E text \in ArgTexts, annotation \in ArgAnnotations :
         conv' = IF StrToArgError(text, annotation) # NoError
                 THEN Conversion("parse raised", VNone, annotation, text,
                                 VNone, StrToArgError(text, annotation))
                 ELSE Conversion("parsed", VNone, annotation, text,
                                 StrToArg(text, annotation), NoError)
    /\ UNCHANGED <<sub_pc, sub_error, submitter, default_args, annotations,
                   merged_args_list, i_grid, runner_args, n_mc_requested,
                   i_batch, yielded_args, args_given, tickets>>
    /\ UNCHANGED runnervars

ArgNext ==
    \/ ArgToStrCall
    \/ StrToArgBack
    \/ StrToArgCall

ArgSpec == Init /\ [][ArgNext]_vars

\* ------------------------------------------------------------------ claims
\* the constructor returned a Runner
Constructed == pc \notin {"new", "init_failed"}

\* the constructor was called (it returned or it raised)
Called == pc # "new"

\* nothing of a run has happened: no dataset generated or read, none assigned
\* to the model, no fit, no file written
Untouched ==
    /\ generated = 0
    /\ file_reads = 0
    /\ data = NoData
    /\ model_data = Preset
    /\ fits = <<>>
    /\ toydata_writes = <<>>
    /\ output_writes = <<>>

\* what an input hypothesis contributes, given the stored generate_values
Contribution(hypothesis) ==
    CASE hypothesis.kind = "free" -> EmptyMap
      [] hypothesis.kind = "null" -> [k \in {args.poi} |-> Num(0)]
      [] hypothesis.kind = "true" -> [k \in {args.poi} |-> generate_values[args.poi]]
      [] OTHER -> hypothesis.map

\* m is the mapping common overlaid by own, own winning on a common key
IsOverlay(m, common, own) ==
    /\ DOMAIN m = (DOMAIN common) \cup (DOMAIN own)
    /\ \A k \in DOMAIN own : m[k] = own[k]
    /\ \A k \in (DOMAIN common) \ (DOMAIN own) : m[k] = common[k]

\* C1: hypothesis resolution preserves length and order: the k-th resolved
\* hypothesis is common_hypothesis overlaid by what the k-th input hypothesis
\* contributes ("free" nothing, "null" {poi: 0.0}, "true" {poi:
\* generate_values[poi]}, a mapping itself), the hypothesis winning on a common
\* key; ["free", "null"] with an empty common_hypothesis gives [{}, {poi: 0.0}]
C1_ResolutionOrderPreserving ==
    Constructed =>
        /\ Len(hypotheses_values) = Len(args.hypotheses)
        /\ \A k \in 1..Len(args.hypotheses) :
              IsOverlay(hypotheses_values[k], args.common_hypothesis,
                        Contribution(args.hypotheses[k]))
        /\ (/\ args.hypotheses = <<Symbolic("free"), Symbolic("null")>>
            /\ args.common_hypothesis = EmptyMap)
           => hypotheses_values = <<EmptyMap, [k \in {args.poi} |-> Num(0)]>>

\* C1 witness: a Runner constructed from ["free", "null"] whose
\* common_hypothesis fixes poi too, so that the override decides the value
C1_Witness ==
    /\ pc = "constructed"
    /\ args.hypotheses = <<Symbolic("free"), Symbolic("null")>>
    /\ args.poi \in DOMAIN args.common_hypothesis
    /\ args.common_hypothesis[args.poi] # Num(0)
    /\ hypotheses_values[2][args.poi] = Num(0)

\* "free" occurs in the list at a position other than the first
FreeLater(hypotheses) ==
    \E i \in 2..Len(hypotheses) : hypotheses[i].kind = "free"

C3_ConfidenceIntervalNeedsFree ==
    /\ (/\ Called
        /\ args.compute_confidence_interval
        /\ ~HasFree(args.hypotheses)) => pc = "init_failed"
    /\ (Constructed /\ args.compute_confidence_interval) =>
          /\ args.hypotheses[1].kind = "free"
          /\ hypotheses_values[1] = args.common_hypothesis

\* C3 witness: ["null"] with confidence intervals was rejected for the
\* missing "free"
C3_Witness ==
    /\ pc = "init_failed"
    /\ args.compute_confidence_interval
    /\ args.hypotheses = <<Symbolic("null")>>
    /\ error = "ValueError: free hypothesis is needed for confidence interval"

\* the arguments hold one of the configuration errors of C4
ConfigurationError ==
    \/ \E k \in DOMAIN args.generate_values : args.generate_values[k][1] # "num"
    \/ \E k \in DOMAIN args.common_hypothesis : args.common_hypothesis[k][1] # "num"
    \/ Len(args.hypotheses) = 0
    \/ \E i \in 1..Len(args.hypotheses) :
          \E k \in DOMAIN args.hypotheses[i].map :
              args.hypotheses[i].map[k][1] # "num"

\* C4: a non-numeric value in generate_values, in common_hypothesis or in a
\* resolved hypothesis, or an empty hypothesis list, makes construction fail,
\* and a failed construction has generated or read no toy data, assigned no
\* dataset, run no fit and written no file
C4_ConfigurationErrorsFailEarly ==
    /\ (Called /\ ConfigurationError) => pc = "init_failed"
    /\ pc = "init_failed" => Untouched

\* C4 witness: construction failed on a non-numeric value of an explicit
\* hypothesis, the two mappings being numeric
C4_Witness ==
    /\ pc = "init_failed"
    /\ error = "ValueError: hypothesis should be a dict of float"
    /\ Untouched

\* generate_values was passed with poi_expectation, without poi, and poi ends
\* with the suffix: the case in which poi_expectation is resolved
ResolvableExpectation ==
    /\ PoiExpectation \in DOMAIN args.generate_values
    /\ args.poi \notin DOMAIN args.generate_values
    /\ EndsWith(args.poi, RM)

\* the expectation values the model returns for the arguments of the call
QueriedExpectation ==
    ExpectationValues(Update(Pop(args.generate_values, PoiExpectation),
                             args.nominal_values))

\* the name without its last token (the suffix alone removed)
StripSuffix(name) == SubSeq(name, 1, Len(name) - 1)

\* C5 as stated: in the resolvable case the stored generate_values have no
\* poi_expectation, have poi = E/N with N the expected yield of the component
\* named by poi without the suffix, and keep every other key; without
\* poi_expectation the stored generate_values equal the input
C5_AsStated ==
    /\ (Constructed /\ ResolvableExpectation) =>
          /\ DOMAIN generate_values =
                ((DOMAIN args.generate_values) \ {PoiExpectation}) \cup {args.poi}
          /\ StripSuffix(args.poi) \in DOMAIN QueriedExpectation
          /\ generate_values[args.poi] =
                Div(args.generate_values[PoiExpectation],
                    QueriedExpectation[StripSuffix(args.poi)])
          /\ \A k \in (DOMAIN args.generate_values) \ {PoiExpectation} :
                generate_values[k] = args.generate_values[k]
    /\ (Constructed /\ PoiExpectation \notin DOMAIN args.generate_values) =>
          generate_values = args.generate_values

\* C6: poi_expectation given along with poi, or with a poi that does not end
\* with _rate_multiplier, makes construction fail without the model's
\* expectation values being queried and with the supplied generate_values as
\* they were passed
C6_PoiExpectationErrors ==
    (/\ Called
     /\ PoiExpectation \in DOMAIN args.generate_values
     /\ \/ args.poi \in DOMAIN args.generate_values
        \/ ~EndsWith(args.poi, RM)) =>
        /\ pc = "init_failed"
        /\ expectation_queries = 0
        /\ caller_generate_values = args.generate_values

\* C6 witness: construction failed on the suffix of poi, poi_expectation still
\* in the caller's mapping and no poi value added
C6_Witness ==
    /\ pc = "init_failed"
    /\ error = "ValueError: poi should end with _rate_multiplier"
    /\ PoiExpectation \in DOMAIN caller_generate_values
    /\ args.poi \notin DOMAIN caller_generate_values
    /\ expectation_queries = 0

HasTrue(hypotheses) == \E i \in 1..Len(hypotheses) : hypotheses[i].kind = "true"

\* C7: "true" is resolved against generate_values as stored after the
\* resolution of poi_expectation: with poi absent from them construction
\* fails; given poi_expectation = E and no poi, construction does not fail for
\* a missing poi and "true" resolves to {poi: E/N}, the stored value, over
\* common_hypothesis
C7_TrueUsesStoredGenerateValues ==
    /\ (/\ Called
        /\ HasTrue(args.hypotheses)
        /\ args.poi \notin DOMAIN caller_generate_values) => pc = "init_failed"
    /\ (Called /\ ResolvableExpectation) =>
          error # "ValueError: poi should be provided in generate_values"
    /\ (Constructed /\ ResolvableExpectation) =>
          \A k \in 1..Len(args.hypotheses) :
              args.hypotheses[k].kind = "true" =>
                  /\ PoiExpectation \notin DOMAIN generate_values
                  /\ \E c \in DOMAIN QueriedExpectation :
                        generate_values[args.poi] =
                            Div(args.generate_values[PoiExpectation],
                                QueriedExpectation[c])
                  /\ IsOverlay(hypotheses_values[k], args.common_hypothesis,
                               [x \in {args.poi} |-> generate_values[args.poi]])

\* C7 witness: a Runner constructed from poi_expectation alone and ["true"]
C7_Witness ==
    /\ pc = "constructed"
    /\ ResolvableExpectation
    /\ args.hypotheses = <<Symbolic("true")>>
    /\ hypotheses_values[1][args.poi] = generate_values[args.poi]
    /\ args.poi \notin DOMAIN args.common_hypothesis

\* the generator has not passed its opening checks
BeforeLoop == pc \in {"init_failed", "constructed", "gen_start", "run_failed"}

OnlyToydataError ==
    "ValueError: only_toydata is True, you should only generate_and_write"

UnknownModeError == "ValueError: Unknown toydata mode"

\* C8 as stated: only_toydata with a toydata_mode other than
\* generate_and_write makes construction fail
C8_AsStated ==
    (/\ Called
     /\ args.only_toydata
     /\ args.toydata_mode # "generate_and_write") => pc = "init_failed"

\* C8 amended: only_toydata with a toydata_mode other than generate_and_write
\* is no error of the constructor; the first pass over the data generator
\* rejects it, before any dataset is generated, read, yielded or assigned and
\* before any fit or write
C8_OnlyToydataRejectedAtFirstPass ==
    (/\ Called
     /\ args.only_toydata
     /\ args.toydata_mode # "generate_and_write") =>
        /\ BeforeLoop
        /\ Untouched
        /\ pc = "init_failed" => error \notin {OnlyToydataError, UnknownModeError}
        /\ pc = "run_failed" => error \in {OnlyToydataError, UnknownModeError}

\* C8 witness: a constructed Runner with only_toydata and mode read was run,
\* and the run failed on the combination with the file unread
C8_Witness ==
    /\ pc = "run_failed"
    /\ args.only_toydata
    /\ args.toydata_mode = "read"
    /\ error = OnlyToydataError
    /\ Untouched

\* C9: with a toydata_mode outside the four legal ones the first pass over
\* the data generator fails before any dataset is generated, read, yielded or
\* assigned to the model, before any fit and before any write
C9_UnknownModeFailsFast ==
    (Called /\ args.toydata_mode \notin ToydataModes) =>
        /\ BeforeLoop
        /\ Untouched
        /\ pc = "run_failed" => error = UnknownModeError

\* C9 witness: simulate_and_fit of a Runner with an unknown mode has failed
C9_Witness ==
    /\ pc = "run_failed"
    /\ args.toydata_mode \notin ToydataModes
    /\ ~args.only_toydata
    /\ args.n_mc > 0
    /\ error = UnknownModeError
    /\ Untouched

\* the error of a toy file that could not be read
ReadRaisedError == "read_toydata raised"

StoredTooFewError ==
    "ValueError: Number of stored toydata is less than number of Monte Carlo"

\* C10: in read mode, fewer stored records than n_mc make the run fail before
\* the loop (no dataset assigned, no fit, no output); with n_mc or more the
\* run passes the check, warns exactly when there are more, and iteration i
\* uses stored record i, for i < n_mc only
C10_ReadMode ==
    (Called /\ args.toydata_mode = "read") =>
        /\ Len(toyfile) < args.n_mc =>
              /\ BeforeLoop
              /\ data = NoData
              /\ model_data = Preset
              /\ fits = <<>>
              /\ output_writes = <<>>
              /\ pc = "run_failed" =>
                    error \in {StoredTooFewError, OnlyToydataError,
                               ReadRaisedError}
        /\ Len(toyfile) >= args.n_mc =>
              /\ error # StoredTooFewError
              /\ (Constructed /\ ~BeforeLoop) =>
                    warnings = (IF Len(toyfile) > args.n_mc THEN 1 ELSE 0)
              /\ pc = "yielded" => data = toyfile[i_mc + 1]
              /\ pc = "fitting" => model_data = toyfile[i_mc + 1]
              /\ \A j \in 1..Len(fits) :
                    /\ fits[j].i < args.n_mc
                    /\ fits[j].data = toyfile[fits[j].i + 1]
              /\ generated = 0

\* C10 witness: a run in read mode over a file with one record more than n_mc
\* has completed with every iteration fit
C10_Witness ==
    /\ pc = "done"
    /\ args.toydata_mode = "read"
    /\ args.n_mc = 2
    /\ Len(toyfile) = 3
    /\ warnings = 1
    /\ Len(fits) >= 2
    /\ fits[Len(fits)].data = Stored(1)

\* the generator is in one of its four modes
LegalMode == Constructed /\ args.toydata_mode \in ToydataModes

\* C11: in each of the four modes a pass of the generator that runs to its
\* end has yielded exactly n_mc datasets, and never more on the way; in
\* generate and generate_and_write mode each yielded dataset is the product
\* of its own generate_data call, made with the stored generate_values, and a
\* full pass made n_mc calls; in read and no_toydata mode generate_data is
\* never called and the yielded values are the stored records in order,
\* respectively the null placeholder
C11_GeneratorYieldsNmc ==
    LegalMode =>
        /\ Len(yielded) <= args.n_mc
        /\ gen_done => Len(yielded) = args.n_mc
        /\ args.toydata_mode \in {"generate", "generate_and_write"} =>
              /\ generated = Len(generate_calls)
              /\ gen_done => Len(generate_calls) = args.n_mc
              /\ Len(generate_calls) >= Len(yielded)
              /\ Len(generate_calls) > Len(yielded) =>
                    /\ Len(generate_calls) = Len(yielded) + 1
                    /\ pc = "run_failed"
                    /\ error = "generate_data raised"
              /\ \A j \in 1..Len(generate_calls) :
                    generate_calls[j] = generate_values
              /\ \A j \in 1..Len(yielded) :
                    yielded[j].src = "gen" /\ yielded[j].idx = j - 1
        /\ args.toydata_mode = "read" =>
              /\ generated = 0
              /\ generate_calls = <<>>
              /\ \A j \in 1..Len(yielded) : yielded[j] = toyfile[j]
        /\ args.toydata_mode = "no_toydata" =>
              /\ generated = 0
              /\ generate_calls = <<>>
              /\ \A j \in 1..Len(yielded) : yielded[j] = NoData

\* C11 witness: a pass in generate mode with n_mc = 2 has run to its end
\* after two generate_data calls with the stored generate_values
C11_Witness ==
    /\ gen_done
    /\ args.toydata_mode = "generate"
    /\ args.n_mc = 2
    /\ Len(yielded) = 2
    /\ Len(generate_calls) = 2
    /\ generate_calls[2] = generate_values
    /\ generate_values # EmptyMap

\* every row of every result table holds the record of a fit
AllRowsWritten ==
    \A h \in 1..Len(results) :
        \A i \in 1..Len(results[h].rows) : results[h].rows[i] # ZeroRow

\* C12: write_toydata is called at most once in a run, and only in
\* generate_and_write mode; when it is called all n_mc datasets have been
\* yielded and consumed (the loops are over: no dataset is pending, no fit is
\* pending, every row is written), and it is passed exactly the yielded
\* datasets in their order; a pass of the generator that ran to its end in
\* generate_and_write mode made the call
C12_SingleDeferredFlush ==
    Constructed =>
        /\ Len(toydata_writes) <= 1
        /\ args.toydata_mode # "generate_and_write" => toydata_writes = <<>>
        /\ toydata_writes # <<>> =>
              /\ args.toydata_mode = "generate_and_write"
              /\ pc \notin {"gen_start", "gen_loop", "yielded", "fitting"}
              /\ i_mc = args.n_mc
              /\ Len(yielded) = args.n_mc
              /\ generated = args.n_mc
              /\ toydata_writes[1].data_list = yielded
              /\ ~args.only_toydata =>
                    /\ AllRowsWritten
                    /\ Len(assignments) = args.n_mc
        /\ (gen_done /\ args.toydata_mode = "generate_and_write") =>
              Len(toydata_writes) = 1

\* C12 witness: a run of simulate_and_fit in generate_and_write mode with
\* n_mc = 2 is over and made its one write of the two datasets
C12_Witness ==
    /\ pc = "done"
    /\ args.toydata_mode = "generate_and_write"
    /\ ~args.only_toydata
    /\ args.n_mc = 2
    /\ Len(toydata_writes) = 1
    /\ Len(toydata_writes[1].data_list) = 2
    /\ toydata_writes[1].data_list[1] # toydata_writes[1].data_list[2]
    /\ Len(fits) >= 2

\* run() has returned from simulate() in generate_and_write mode
OnlyToydataRunReturned ==
    /\ pc = "done"
    /\ args.only_toydata
    /\ args.toydata_mode = "generate_and_write"

\* C13 as the claim words it: whatever generate_data returns, a run with
\* only_toydata in generate_and_write mode that has returned generated n_mc
\* datasets and saved all of them in one write, with no fit, no confidence
\* interval and no result file
C13_AsStated ==
    OnlyToydataRunReturned =>
        /\ generated = args.n_mc
        /\ Len(toydata_writes) = 1
        /\ Len(toydata_writes[1].data_list) = args.n_mc
        /\ fits = <<>>
        /\ ci_calls = <<>>
        /\ output_writes = <<>>

\* C14 as the claim words it: every store_data call of write_toydata is
\* passed, besides the datasets, the generate_values they were generated from
C14_AsStated ==
    \A j \in 1..Len(toydata_writes) :
        /\ toydata_writes[j].data_list = yielded
        /\ generate_values \in toydata_writes[j].others

\* C15: in simulate_and_fit the j-th assignment to model.data is that of
\* iteration j - 1 and assigns the j-th yielded dataset, so each iteration's
\* dataset is assigned once and in the order 0..n_mc-1; every fit comes after
\* the assignment of its iteration and runs on that iteration's dataset, the
\* fits never go back to an earlier iteration; and when the dataset of a
\* later iteration has been obtained, the rows of every earlier iteration
\* hold the records of that iteration's fits
C15_IterationOrder ==
    (Constructed /\ ~args.only_toydata) =>
        /\ Len(yielded) <= args.n_mc
        /\ Len(assignments) <= Len(yielded)
        /\ Len(yielded) <= Len(assignments) + 1
        /\ \A j \in 1..Len(assignments) :
              /\ assignments[j].i = j - 1
              /\ assignments[j].data = yielded[j]
        /\ \A j \in 1..Len(fits) :
              /\ fits[j].i >= 0
              /\ fits[j].i + 1 <= Len(assignments)
              /\ fits[j].data = yielded[fits[j].i + 1]
              /\ \A k \in 1..(j - 1) : fits[k].i <= fits[j].i
        /\ \A k \in 1..(Len(yielded) - 1) :
              \A h \in 1..Len(results) :
                  /\ results[h].rows[k].i = k - 1
                  /\ results[h].rows[k].h = h
                  /\ results[h].rows[k].data = yielded[k]

\* C15 witness: the second iteration of a run in generate mode is fitting on
\* the second generated dataset, the rows of the first iteration written
C15_Witness ==
    /\ pc = "fitting"
    /\ args.toydata_mode = "generate"
    /\ i_mc = 1
    /\ Len(yielded) = 2
    /\ yielded[1] # yielded[2]
    /\ Len(assignments) = 2
    /\ fits # <<>>
    /\ fits[Len(fits)].i = 1
    /\ fits[Len(fits)].data = yielded[2]
    /\ results[1].rows[1].data = yielded[1]

\* the error of a hypothesis that is not a subset of the fittable parameters
NotFittableError ==
    "ValueError: hypothesis should be a subset of the fittable parameters"

\* the resolved hypotheses that constrain a parameter that is not fittable
NonFittableAt ==
    {h \in 1..Len(hypotheses_values) :
        (DOMAIN hypotheses_values[h]) \ Fittable # {}}

\* simulate_and_fit of a Runner with such a hypothesis has been or may be run
HasNonFittable == Constructed /\ ~args.only_toydata /\ NonFittableAt # {}

\* C16 as the claim words it: fit is never called with a hypothesis that is
\* not a subset of the fittable parameters, and a run with such a hypothesis
\* among the resolved ones never comes to its end and writes no result file
C16_AsStated ==
    /\ \A j \in 1..Len(fits) : (DOMAIN fits[j].hyp) \ Fittable = {}
    /\ HasNonFittable =>
          /\ pc \notin {"write_output", "done"}
          /\ output_writes = <<>>

\* C16: fit is never called with a hypothesis that is not a subset of the
\* fittable parameters; a run with such a hypothesis never leaves its first
\* iteration and fits only the hypotheses before the first such one, on
\* dataset 0; when n_mc >= 1 it never comes to its end and writes no result
\* file; and when it fails on the check, it does so in iteration 0 at the
\* first such hypothesis, each hypothesis before it fit once on dataset 0
C16_NonFittableFailsWhenReached ==
    /\ \A j \in 1..Len(fits) : (DOMAIN fits[j].hyp) \ Fittable = {}
    /\ HasNonFittable =>
          LET first == CHOOSE h \in NonFittableAt :
                           \A g \in NonFittableAt : h <= g
          IN  /\ i_mc = 0
              /\ h_idx <= first
              /\ Len(fits) <= first - 1
              /\ \A j \in 1..Len(fits) :
                    /\ fits[j].i = 0
                    /\ fits[j].h = j
                    /\ fits[j].data = yielded[1]
              /\ args.n_mc >= 1 =>
                    /\ pc \notin {"write_output", "done"}
                    /\ output_writes = <<>>
              /\ error = NotFittableError =>
                    /\ pc = "run_failed"
                    /\ args.n_mc >= 1
                    /\ h_idx = first
                    /\ Len(fits) = first - 1
                    /\ Len(assignments) = 1
    /\ error = NotFittableError => HasNonFittable

\* C16 witness: a run whose second hypothesis constrains kappa has failed on
\* the check after the fit of the first hypothesis on dataset 0
C16_Witness ==
    /\ pc = "run_failed"
    /\ error = NotFittableError
    /\ Len(hypotheses_values) = 2
    /\ Kappa \in DOMAIN hypotheses_values[2]
    /\ Len(fits) = 1
    /\ fits[1].h = 1
    /\ fits[1].data = yielded[1]
    /\ args.n_mc = 2
    /\ output_writes = <<>>

\* the confidence_interval calls made for hypothesis h in iteration i
IntervalCalls(i, h) ==
    {j \in 1..Len(ci_calls) : ci_calls[j].i = i /\ ci_calls[j].h = h}

\* the j-th fit call returned (only the last call can have raised)
FitReturned(j) == ~(j = Len(fits) /\ error = "fit raised")

\* C17: for every fit that returned, of hypothesis h in iteration i,
\* confidence_interval is called, once, if and only if
\* compute_confidence_interval is set and poi is not a key of that resolved
\* hypothesis, and it is called for no other pair; a call is passed poi, the
\* first resolved hypothesis as best_fit_args and the current one as
\* confidence_interval_args; a record whose call was not made has NaN for dl
\* and ul, so the records of "null" and "true" hypotheses, and all records
\* when common_hypothesis fixes poi, have NaN bounds
C17_ConfidenceIntervalCalls ==
    (Constructed /\ ~args.only_toydata) =>
        /\ \A j \in 1..Len(fits) :
              LET wanted == /\ args.compute_confidence_interval
                            /\ args.poi \notin DOMAIN fits[j].hyp
              IN  /\ Cardinality(IntervalCalls(fits[j].i, fits[j].h))
                        = (IF wanted /\ FitReturned(j) THEN 1 ELSE 0)
                  /\ fits[j].ci = wanted
                  /\ fits[j].hyp = hypotheses_values[fits[j].h]
        /\ \A j \in 1..Len(ci_calls) :
              /\ \E k \in 1..Len(fits) :
                    /\ FitReturned(k)
                    /\ fits[k].i = ci_calls[j].i
                    /\ fits[k].h = ci_calls[j].h
              /\ ci_calls[j].poi_name = args.poi
              /\ ci_calls[j].best_fit_args = hypotheses_values[1]
              /\ ci_calls[j].confidence_interval_args
                    = hypotheses_values[ci_calls[j].h]
        /\ \A h \in 1..Len(results) :
              \A i \in 1..Len(results[h].rows) :
                  LET row == results[h].rows[i]
                  IN  row # ZeroRow =>
                        /\ row.ci = (IntervalCalls(row.i, row.h) # {})
                        /\ (\/ args.hypotheses[h].kind \in {"null", "true"}
                            \/ args.poi \in DOMAIN common_hypothesis
                            \/ ~args.compute_confidence_interval)
                              => ~row.ci

\* C17 witness: with compute_confidence_interval set, a run over
\* ["free", "null"] has written a row with bounds from a call whose
\* best_fit_args and confidence_interval_args are the first hypothesis, and a
\* row of the "null" hypothesis with NaN bounds
C17_Witness ==
    /\ pc = "done"
    /\ args.compute_confidence_interval
    /\ Len(args.hypotheses) = 2
    /\ args.hypotheses[1].kind = "free"
    /\ args.hypotheses[2].kind = "null"
    /\ args.n_mc >= 1
    /\ results[1].rows[1].ci
    /\ ~results[2].rows[1].ci
    /\ Len(ci_calls) = args.n_mc
    /\ ci_calls[1].best_fit_args = hypotheses_values[1]
    /\ hypotheses_values[1] # hypotheses_values[2]

\* simulate_and_fit has returned its tables
SimulateAndFitReturned ==
    /\ Constructed
    /\ ~args.only_toydata
    /\ pc \in {"write_output", "done"}

\* names is the fittable parameters' names in sorted order, then ll, dl, ul
IsResultSchema(names) ==
    LET n == Cardinality(Fittable)
    IN  /\ Len(names) = n + 3
        /\ {names[c] : c \in 1..n} = Fittable
        /\ \A c \in 1..n : \A d \in 1..n :
              c < d => NameRank(names[c]) < NameRank(names[d])
        /\ names[n + 1] = LL
        /\ names[n + 2] = DL
        /\ names[n + 3] = UL

C19_OutputWrittenOnceAtEnd ==
    Constructed =>
        /\ Len(output_writes) <= 1
        /\ args.only_toydata => output_writes = <<>>
        /\ output_writes # <<>> =>
              /\ gen_done
              /\ i_mc = args.n_mc
              /\ Len(fits) = args.n_mc * Len(hypotheses_values)
              /\ AllRowsWritten
              /\ WrittenTables(output_writes[1]) = results
              /\ args.toydata_mode = "generate_and_write" =>
                    /\ Len(toydata_writes) = 1
                    /\ Len(toydata_writes[1].data_list) = args.n_mc
              /\ error \in {NoError, "write_output raised"}
              /\ pc \in {"done", "run_failed"}
        /\ error \notin {NoError, "write_output raised"} =>
              /\ pc = "run_failed"
              /\ output_writes = <<>>

\* C19 witness: a run in generate_and_write mode with two iterations and two
\* hypotheses is over, the toy data saved and the result file written once
C19_Witness ==
    /\ pc = "done"
    /\ ~args.only_toydata
    /\ args.toydata_mode = "generate_and_write"
    /\ args.n_mc = 2
    /\ Len(hypotheses_values) = 2
    /\ Len(fits) = 4
    /\ Len(toydata_writes) = 1
    /\ Len(output_writes) = 1
    /\ WrittenTables(output_writes[1]) = results

\* the (iteration, hypothesis) pairs of the confidence_interval calls
IntervalPairs == {<<ci_calls[j].i, ci_calls[j].h>> : j \in 1..Len(ci_calls)}

\* C20: the fits are made in the lexicographic order of (iteration,
\* hypothesis), each pair once, and a run that is over without error made
\* n_mc x H of them; no operation is repeated: at most one read of the toy
\* file, one generate_data call and one assignment per iteration, one
\* confidence_interval call per pair, one toy-data write, one result write;
\* and once an operation has raised, the run takes no further step
C20_NoRetries ==
    Constructed =>
        /\ \A j \in 1..Len(fits) :
              /\ fits[j].i = (j - 1) \div Len(hypotheses_values)
              /\ fits[j].h = ((j - 1) % Len(hypotheses_values)) + 1
        /\ (pc = "done" /\ ~args.only_toydata) =>
              Len(fits) = args.n_mc * Len(hypotheses_values)
        /\ file_reads <= 1
        /\ Len(generate_calls) <= args.n_mc
        /\ Len(assignments) <= args.n_mc
        /\ \A j \in 1..Len(assignments) : assignments[j].i = j - 1
        /\ Cardinality(IntervalPairs) = Len(ci_calls)
        /\ Len(toydata_writes) <= 1
        /\ Len(output_writes) <= 1
        /\ error # NoError => (pc = "run_failed" /\ ~ENABLED Next)

\* C20 witness: a run with two iterations and two hypotheses is over after
\* four fits, the last one of hypothesis 2 in iteration 1
C20_Witness ==
    /\ pc = "done"
    /\ error = NoError
    /\ ~args.only_toydata
    /\ args.n_mc = 2
    /\ Len(hypotheses_values) = 2
    /\ Len(fits) = 4
    /\ fits[2].i = 0
    /\ fits[2].h = 2
    /\ fits[3].i = 1
    /\ fits[3].h = 1

\* C21 as the claim words it: a numpy_to_toyfile call of write_output carries
\* one table, one name and one metadata mapping per hypothesis, in the order
\* of the hypotheses; the name at index k is the symbolic name of the k-th
\* input hypothesis, or the decimal string of k when that hypothesis is a
\* mapping; the metadata at index k is the k-th resolved hypothesis; and the
\* names of one call are pairwise distinct
C21_AsStated ==
    \A j \in 1..Len(output_writes) :
        LET call == output_writes[j]
            n == Len(args.hypotheses)
        IN  /\ Len(call.numpy_arrays_and_names) = n
            /\ Len(call.array_metadatas) = n
            /\ \A k \in 1..n :
                  /\ call.numpy_arrays_and_names[k].array = results[k]
                  /\ call.numpy_arrays_and_names[k].name =
                        (IF args.hypotheses[k].kind = "dict"
                         THEN Decimal(k - 1)
                         ELSE <<args.hypotheses[k].kind>>)
                  /\ call.array_metadatas[k].hypotheses_values
                        = hypotheses_values[k]
            /\ \A k \in 1..n : \A l \in 1..n :
                  k # l => call.numpy_arrays_and_names[k].name
                              # call.numpy_arrays_and_names[l].name

\* the keys of the file's metadata that write_output sets itself
RunnerMetadataKeys == {"date", "poi", "common_hypothesis", "generate_values"}

\* C22: the metadata of every numpy_to_toyfile call of write_output hold the
\* Runner's poi, its common_hypothesis and its stored generate_values under
\* the keys poi, common_hypothesis and generate_values, and a date of the
\* clock under date, whatever the user's metadata hold under these keys;
\* every other entry of the user's metadata is there unchanged, and there is
\* no further entry
C22_FileMetadata ==
    \A j \in 1..Len(output_writes) :
        LET metadata == output_writes[j].metadata
        IN  /\ DOMAIN metadata = (DOMAIN args.metadata) \cup RunnerMetadataKeys
            /\ metadata["poi"] = MetaName(args.poi)
            /\ metadata["common_hypothesis"] = MetaMap(common_hypothesis)
            /\ metadata["generate_values"] = MetaMap(generate_values)
            /\ \E date \in Dates : metadata["date"] = MetaName(date)
            /\ \A k \in (DOMAIN args.metadata) \ RunnerMetadataKeys :
                  metadata[k] = args.metadata[k]

\* C22 witness: write_output was called by a Runner whose user metadata had
\* entries under poi, generate_values and date, and one under note
C22_Witness ==
    /\ pc = "done"
    /\ Len(output_writes) = 1
    /\ RunnerMetadataKeys \subseteq DOMAIN args.metadata
    /\ "note" \in DOMAIN args.metadata
    /\ args.metadata["poi"] # MetaName(args.poi)
    /\ args.metadata["generate_values"] # MetaMap(generate_values)
    /\ output_writes[1].metadata["note"] = args.metadata["note"]
    /\ output_writes[1].metadata["poi"] = MetaName(args.poi)

\* C23 as the claim words it: in no_toydata mode the model keeps the dataset
\* it held before the run, and every fit of the run is made on that dataset
C23_AsStated ==
    (Constructed /\ args.toydata_mode = "no_toydata") =>
        /\ model_data = Preset
        /\ \A j \in 1..Len(fits) : fits[j].data = Preset

\* the rows of iteration i (from 0) are written, one per table, each the
\* record of the fit of its hypothesis in that iteration
RowsWritten(i) ==
    \A h \in 1..Len(results) :
        /\ results[h].rows[i + 1] # ZeroRow
        /\ results[h].rows[i + 1].i = i
        /\ results[h].rows[i + 1].h = h

\* no table has a row of iteration i (from 0)
RowsZero(i) == \A h \in 1..Len(results) : results[h].rows[i + 1] = ZeroRow

\* C29: in simulate_and_fit, with i_mc the iteration the loop is in (n_mc
\* when it is over), every table has its rows 0..i_mc-1 written with the
\* records of those iterations and its rows i_mc..n_mc-1 still zero; while
\* the hypotheses of iteration i_mc are being fit, and after a fit, a
\* confidence interval or the check of a hypothesis has failed in it, no
\* table has a row of that iteration; and the rows of an iteration are written
\* only when every hypothesis of it has been fit
C29_RowsOfAnIterationTogether ==
    (Constructed /\ ~args.only_toydata /\ pc \notin {"constructed"}) =>
        /\ Len(results) = Len(hypotheses_values)
        /\ \A h \in 1..Len(results) : Len(results[h].rows) = args.n_mc
        /\ i_mc <= args.n_mc
        /\ \A i \in 0..(i_mc - 1) : RowsWritten(i)
        /\ \A i \in i_mc..(args.n_mc - 1) : RowsZero(i)
        /\ \A i \in 0..(args.n_mc - 1) :
              RowsWritten(i) =>
                  \A h \in 1..Len(hypotheses_values) :
                      \E j \in 1..Len(fits) :
                          /\ fits[j] = results[h].rows[i + 1]
                          /\ FitReturned(j)
        /\ error \in {"fit raised", "confidence_interval raised",
                      NotFittableError} =>
              /\ i_mc < args.n_mc
              /\ RowsZero(i_mc)

\* C29 witness: the fit of the second hypothesis has raised in the second
\* iteration, after the first hypothesis was fit in it: the tables hold the
\* rows of the first iteration and none of the second
C29_Witness ==
    /\ pc = "run_failed"
    /\ error = "fit raised"
    /\ args.n_mc = 2
    /\ i_mc = 1
    /\ Len(hypotheses_values) = 2
    /\ Len(fits) = 4
    /\ RowsWritten(0)
    /\ RowsZero(1)

\* an operation of the loop body of simulate_and_fit has failed
LoopBodyFailed ==
    error \in {"model.data setter raised", "fit raised",
               "confidence_interval raised", NotFittableError}

\* C30: in generate_and_write mode inside simulate_and_fit, when
\* write_toydata has been called every hypothesis of all n_mc iterations has
\* been fit and its record written, none of these fits having raised; and
\* after a failure in the loop body of any iteration, the last one included,
\* write_toydata has not been called, whatever was generated before
C30_ToydataWrittenOnlyAfterAllFits ==
    (/\ Constructed
     /\ ~args.only_toydata
     /\ args.toydata_mode = "generate_and_write") =>
        /\ toydata_writes # <<>> =>
              /\ ~LoopBodyFailed
              /\ Len(fits) = args.n_mc * Len(hypotheses_values)
              /\ \A j \in 1..Len(fits) : FitReturned(j)
              /\ AllRowsWritten
        /\ LoopBodyFailed =>
              /\ pc = "run_failed"
              /\ toydata_writes = <<>>
              /\ generated = i_mc + 1
              /\ Len(toydata) = i_mc + 1

\* C30 witness: a fit of the last of two iterations has raised; two datasets
\* were generated and the toy-data file is not written
C30_Witness ==
    /\ pc = "run_failed"
    /\ error = "fit raised"
    /\ ~args.only_toydata
    /\ args.toydata_mode = "generate_and_write"
    /\ args.n_mc = 2
    /\ i_mc = 1
    /\ generated = 2
    /\ Len(toydata) = 2
    /\ toydata_writes = <<>>

\* -------------------------------------------------- claims on the Submitter
\* C25: Runner.runner_arguments gives one default per constructor parameter
\* other than self, each the parameter's own declared default, and one
\* annotation per such parameter.
C25_RunnerArguments ==
    sub_pc # "idle" =>
        /\ DOMAIN default_args = RunnerParameters
        /\ \A k \in 2..Len(Signature) :
              default_args[Signature[k].name] = Signature[k].default
        /\ DOMAIN annotations = RunnerParameters
        /\ \A k \in 2..Len(Signature) :
              annotations[Signature[k].name] = Signature[k].annotation

C25_Witness ==
    /\ sub_pc = "grid"
    /\ default_args[NMc] = VInt(3)
    /\ default_args[Poi] = VStr(<<"mu">>)
    /\ annotations[NMc] = {"int"}

\* the grid point of the last turn of merged_arguments_generator's loop
GridPointTaken == i_grid >= 1

LastGridPoint == merged_args_list[i_grid]

\* the tickets of the grid point at index g (from 1)
TicketsOf(g) == {k \in 1..Len(tickets) : tickets[k].i_grid = g}

\* the value a script gives for the argument name
ScriptValue(script, name) ==
    script[CHOOSE k \in 1..Len(script) : script[k].arg = name].value

\* the loop over the batches of the last grid point ran to its end
BatchesEmitted == GridPointTaken /\ sub_pc \in {"grid", "done"}

UpdateNBatchErrors ==
    {"ValueError: n_mc must be divisible by n_batch",
     "ZeroDivisionError: integer modulo by zero"}

\* C26: with n_batch given and n_mc divisible by it, update_n_batch sets n_mc
\* to n_mc / n_batch and the n_batch tickets of the grid point each run that
\* many repetitions, the requested n_mc in all; with n_mc not divisible it
\* fails and leaves n_mc as requested; without n_batch n_mc stays as requested.
C26_BatchSplitConservesNmc ==
    GridPointTaken =>
        IF NBatch \notin DOMAIN LastGridPoint
        THEN /\ runner_args[NMc].n = n_mc_requested
             /\ sub_error \notin UpdateNBatchErrors
        ELSE IF /\ LastGridPoint[NBatch].n # 0
                /\ n_mc_requested % LastGridPoint[NBatch].n = 0
        THEN /\ sub_error \notin UpdateNBatchErrors
             /\ runner_args[NMc].n * LastGridPoint[NBatch].n = n_mc_requested
             /\ BatchesEmitted =>
                  /\ Cardinality(TicketsOf(i_grid)) = LastGridPoint[NBatch].n
                  /\ \A k \in TicketsOf(i_grid) :
                        ScriptValue(tickets[k].script, NMc) =
                            VStr(Decimal(n_mc_requested \div
                                         LastGridPoint[NBatch].n))
        ELSE /\ sub_pc = "failed"
             /\ sub_error \in UpdateNBatchErrors
             /\ runner_args[NMc].n = n_mc_requested
             /\ TicketsOf(i_grid) = {}

C26_Witness ==
    /\ BatchesEmitted
    /\ NBatch \in DOMAIN LastGridPoint
    /\ LastGridPoint[NBatch].n = 2
    /\ n_mc_requested = 4
    /\ runner_args[NMc].n = 2
    /\ Cardinality(TicketsOf(i_grid)) = 2

UpdateRunnerArgsErrors ==
    {"ValueError: generate_values should be a subset of the fittable parameters",
     "ValueError: generate_values should be all float or int",
     "ValueError: nominal_values should be all float or int"}

\* update_runner_args returned on the last grid point
UpdateRunnerArgsReturned ==
    /\ GridPointTaken
    /\ sub_error \notin UpdateNBatchErrors \cup UpdateRunnerArgsErrors

\* update_runner_args raised on the last grid point
UpdateRunnerArgsRaised ==
    /\ GridPointTaken
    /\ sub_error \in UpdateRunnerArgsErrors

\* the keys of generate_values are fittable and all values are numbers
ValuesValid(ra) ==
    /\ DOMAIN ra[GenerateValues].m \subseteq ParametersFittable
    /\ \A k \in DOMAIN ra[GenerateValues].m : IsNumber(ra[GenerateValues].m[k])
    /\ \A k \in DOMAIN ra[NominalValues].m : IsNumber(ra[NominalValues].m[k])

\* C27: when update_runner_args returns, the top-level keys that named a
\* fittable parameter or poi_expectation are in generate_values with their
\* values, those that named a non-fittable parameter are in nominal_values,
\* no parameter name is left at the top level, the keys of generate_values are
\* fittable and all values of both mappings are numbers; when it raises, the
\* mappings it built are not of that kind.
C27_UpdateRunnerArgs ==
    /\ UpdateRunnerArgsReturned =>
         /\ runner_args[GenerateValues].t = "dict"
         /\ runner_args[NominalValues].t = "dict"
         /\ \A k \in (DOMAIN args_given) \cap ParametersFittable :
               /\ k \in DOMAIN runner_args[GenerateValues].m
               /\ runner_args[GenerateValues].m[k] = args_given[k]
         /\ \A k \in (DOMAIN args_given) \cap ParametersNotFittable :
               /\ k \in DOMAIN runner_args[NominalValues].m
               /\ runner_args[NominalValues].m[k] = args_given[k]
         /\ (DOMAIN runner_args)
              \cap (ParametersFittable \cup ParametersNotFittable) = {}
         /\ ValuesValid(runner_args)
    /\ UpdateRunnerArgsRaised =>
         /\ sub_pc = "failed"
         /\ ~ValuesValid(runner_args)

C27_Witness ==
    /\ UpdateRunnerArgsReturned
    /\ sub_error = NoError
    /\ Mu \in DOMAIN args_given
    /\ Kappa \in DOMAIN args_given
    /\ GenerateValues \in DOMAIN LastGridPoint
    /\ DOMAIN runner_args[GenerateValues].m = {Mu, Sigma}
    /\ runner_args[NominalValues].m[Kappa] = VInt(2)

\* the grid sets one of the arguments the Submitter sets itself
GridSetsCommon ==
    \E k \in 1..Len(submitter.computation.variations) :
        (DOMAIN submitter.computation.variations[k])
            \cap (DOMAIN CommonRunnerArgs) # {}

\* C28: every argument set merged_arguments_generator yields has only keys
\* that are Runner constructor parameters, n_batch or allowed special
\* arguments, and has the Submitter's statistical_model,
\* statistical_model_config and poi; with a computation key other than to_zip,
\* to_vary, in_common, or a grid that sets one of these three arguments, the
\* generator fails and has yielded nothing.
C28_YieldedArguments ==
    /\ \A k \in 1..Len(yielded_args) :
          /\ DOMAIN yielded_args[k] \subseteq
                 RunnerParameters \cup {NBatch}
                     \cup submitter.allowed_special_args
          /\ \A c \in DOMAIN CommonRunnerArgs :
                /\ c \in DOMAIN yielded_args[k]
                /\ yielded_args[k][c] = CommonRunnerArgs[c]
    /\ (sub_pc # "idle"
          /\ (submitter.computation.keys \ AllowedKeys # {} \/ GridSetsCommon)) =>
          /\ sub_pc = "failed"
          /\ sub_error \in {"ValueError: unknown computation options",
                            "ValueError: already specified in the submitter"}
          /\ yielded_args = <<>>
          /\ tickets = <<>>

C28_Witness ==
    /\ Len(yielded_args) = 2
    /\ {NBatch, OutputFilename} \subseteq DOMAIN yielded_args[2]
    /\ yielded_args[2][Poi] # default_args[Poi]
    /\ yielded_args[1][GenerateValues].m # yielded_args[2][GenerateValues].m

\* the errors merged_arguments_generator raises to reject a computation
MergedArgumentsErrors ==
    {"ValueError: unknown computation options",
     "IndexError: list index out of range",
     "ValueError: already specified in the submitter",
     "ValueError: Not all arguments are supported"}
        \cup UpdateNBatchErrors \cup UpdateRunnerArgsErrors

\* the generators stopped and merged_arguments_generator rejected nothing
AcceptedAndOver ==
    /\ sub_pc \in {"done", "failed"}
    /\ sub_error \notin MergedArgumentsErrors

\* C24: once the generators are over for a computation the Submitter
\* accepted, there is one ticket per grid point and batch index
\* 0..n_batch-1 (one without n_batch), in the order of the grid points and of
\* the batch indices, and every script has one --name value pair per
\* annotated parameter of the Runner's constructor.
C24_AsStated ==
    AcceptedAndOver =>
        /\ \A g \in 1..Len(merged_args_list) :
              {tickets[k].i_batch : k \in TicketsOf(g)} =
                  0..(NBatchOf(merged_args_list[g]) - 1)
        /\ \A j, k \in 1..Len(tickets) :
              j < k => \/ tickets[j].i_grid < tickets[k].i_grid
                       \/ /\ tickets[j].i_grid = tickets[k].i_grid
                          /\ tickets[j].i_batch < tickets[k].i_batch
        /\ \A k \in 1..Len(tickets) :
              /\ Len(tickets[k].script) = Cardinality(DOMAIN annotations)
              /\ {tickets[k].script[j].arg : j \in 1..Len(tickets[k].script)}
                     = DOMAIN annotations

\* the Runner's parameter for the file it writes its results to
OutputFile == <<"output_file">>

\* C32: the output filename yielded with a script is the value the script
\* gives for the Runner's output-file argument: the batch-formatted file name
\* under the Submitter's output folder.
C32_AsStated ==
    \A k \in 1..Len(tickets) :
        ScriptValue(tickets[k].script, OutputFile) = tickets[k].output_filename

\* the caller's mappings and metadata are as the caller passed them
CallerObjectsUntouched ==
    /\ heap.hyp[CallerCommon] = args.common_hypothesis
    /\ \A k \in 1..Len(args.hypotheses) :
          args.hypotheses[k].kind = "dict" =>
              heap.hyp[CallerHypothesis(k)] = args.hypotheses[k].map
    /\ heap.meta[CallerMetadata] = args.metadata

\* a parameter no input names, to change a mapping with
Probe == <<"probe">>

\* the mappings after a change of the k-th resolved hypothesis
AfterChangeOf(k) ==
    [heap.hyp EXCEPT ![refs.hypotheses_values[k]] =
        Update(@, MapOf({<<Probe, Num(1)>>}))]

\* C31: construction and write_output leave the caller's hypothesis
\* mappings, common_hypothesis and metadata as passed; a change of one
\* resolved hypothesis changes neither the Runner's or the caller's
\* common_hypothesis nor any other resolved hypothesis.
C31_NoAliasing ==
    /\ Called => CallerObjectsUntouched
    /\ Constructed =>
         /\ Len(refs.hypotheses_values) = Len(hypotheses_values)
         /\ heap.hyp[refs.common_hypothesis] = common_hypothesis
         /\ \A k \in 1..Len(hypotheses_values) :
               /\ heap.hyp[refs.hypotheses_values[k]] = hypotheses_values[k]
               /\ AfterChangeOf(k)[refs.hypotheses_values[k]]
                      # hypotheses_values[k]
               /\ AfterChangeOf(k)[refs.common_hypothesis] = common_hypothesis
               /\ AfterChangeOf(k)[CallerCommon] = args.common_hypothesis
               /\ \A j \in 1..Len(hypotheses_values) :
                     j # k => AfterChangeOf(k)[refs.hypotheses_values[j]]
                                  = hypotheses_values[j]

C31_Witness ==
    /\ pc = "done"
    /\ Len(output_writes) = 1
    /\ args.common_hypothesis # EmptyMap
    /\ args.metadata # NoMetadata
    /\ Len(hypotheses_values) = 2
    /\ args.hypotheses[2].kind = "dict"
    /\ refs.common_hypothesis = CallerCommon
    /\ refs.metadata = CallerMetadata
    /\ heap.meta[FileMetadata] # args.metadata

\* the annotation names one of str, int, float, bool, dict, list
Supported(annotation) ==
    annotation \cap {"str", "int", "float", "bool", "dict", "list"} # {}

\* a value of the type of an annotation among str, int, bool, dict, list and
\* their Optional forms, or None
RoundTripCase(v, annotation) ==
    /\ Supported(annotation)
    /\ "float" \notin annotation
    /\ v.t \in annotation \cup {"none"}

\* C33: str_to_arg(arg_to_str(v, annotation), annotation) = v for every
\* annotation among str, int, bool, dict, list and their Optional forms and
\* every v of that type or None; an unsupported annotation fails in both
\* directions; a bool text other than "True" and "False" fails in str_to_arg.
C33_AsStated ==
    /\ (conv.stage \in {"text", "back", "arg_to_str raised", "str_to_arg raised"}
          /\ RoundTripCase(conv.value, conv.annotation)) =>
          /\ conv.stage \in {"text", "back"}
          /\ conv.stage = "back" => conv.back = conv.value
    /\ (conv.stage # "none" /\ ~Supported(conv.annotation)) =>
          conv.stage \in {"arg_to_str raised", "parse raised"}
    /\ (conv.stage \in {"parsed", "parse raised"}
          /\ Supported(conv.annotation)
          /\ conv.annotation \cap {"str", "int", "float"} = {}
          /\ "bool" \in conv.annotation
          /\ conv.text \notin {VStr(<<"True">>), VStr(<<"False">>), NoneText}) =>
          conv.stage = "parse raised"
====
